---------------------------- MODULE Spec2Model ----------------------------
(***************************************************************************)
(* Signaling relay, signaling channel and peer session manager of the      *)
(* web-conference-app, modelled from the TypeScript sources.               *)
(*                                                                         *)
(*   backend/src/ws/signaling.ts      signalingHandler, cleanupRoomConnection *)
(*   backend/src/index.ts (part_006)  wss.on("connection") handlers        *)
(*   conference-app/hooks/useWebSocket.ts    the signaling channel         *)
(*   conference-app/hooks/useMediaStream.ts  the peer session manager      *)
(***************************************************************************)
EXTENDS Integers, Sequences, FiniteSets, TLC

(***************************************************************************)
(* Bounds of the model.                                                    *)
(***************************************************************************)
\* server-side connections (ws objects accepted by the relay) ever opened
NumConns == 2

Conns == 1..NumConns

\* sockets ever created by the clients (each has a client end and a relay end)
NumSockets == 3

Sockets == 1..NumSockets

\* peer connections ever created by the clients
NumPcs == 2

PcIds == 1..NumPcs

\* ICE candidates ever delivered to a client
MaxCands == 3

\* participant ids that occur in messages; NoId is an absent or empty id
Pids == {"A", "B"}
NoId == "none"
Ids == Pids \cup {NoId}

\* room ids of the /ws/{roomId} path; NoRoom is a path without a room id
Rooms == {"r1", "r2"}
NoRoom == "noroom"

\* payload values (session descriptions, candidates)
Payloads == {"p1"}

\* an optional field of a message: <<>> when absent, <<v>> when present
Absent == <<>>
Some(v) == <<v>>

\* WebSocket.readyState
CONNECTING == 0
OPEN == 1
CLOSING == 2
CLOSED == 3

(***************************************************************************)
(* SignalingMessage: one record shape for every message type.              *)
(***************************************************************************)
Msg(type, from, to) ==
  [type |-> type, from |-> from, to |-> to, sdp |-> Absent, candidate |-> Absent,
   muted |-> Absent, audioEnabled |-> Absent, participants |-> Absent,
   message |-> Absent]

\* the text of a frame that JSON.parse rejects
Unparsable == "unparsable"

\* the message types the relay's switch knows, and one it does not
RelayTypes == {"join", "leave", "offer", "answer", "ice-candidate", "kick",
               "mute", "audio-toggle"}
UnknownType == "unknown"

(***************************************************************************)
(* Map: a JavaScript Map, kept as the sequence of its entries in insertion *)
(* order (set on a present key keeps its place, delete then set appends).  *)
(***************************************************************************)
MapKeys(m) == [i \in 1..Len(m) |-> m[i].key]

MapKeySet(m) == {m[i].key : i \in 1..Len(m)}

MapHas(m, k) == \E i \in 1..Len(m) : m[i].key = k

MapGet(m, k) == m[CHOOSE i \in 1..Len(m) : m[i].key = k].val

\* (mutant) set never replaces an entry
MapSet_Appends(m, k, v) == Append(m, [key |-> k, val |-> v])

MapSet(m, k, v) ==
  IF MapHas(m, k)
  THEN [i \in 1..Len(m) |-> IF m[i].key = k THEN [key |-> k, val |-> v] ELSE m[i]]
  ELSE Append(m, [key |-> k, val |-> v])

MapDelete(m, k) == SelectSeq(m, LAMBDA e : e.key # k)

EmptyMap == <<>>


(***************************************************************************)
(* State.                                                                  *)
(***************************************************************************)
\* wsRef.current === null, and an entry a Map does not hold
NoSocket == 0
NoPc == 0

VARIABLES
  \* signaling channel (hooks/useWebSocket.ts), per client and per socket
  enabled,              \* the enabled prop the effect last ran with
  wsRef,                \* wsRef.current
  shouldReconnectRef,   \* shouldReconnectRef.current
  reconnectTimeoutRef,  \* reconnectTimeoutRef.current: the timer set last (named by the socket whose onclose set it)
  timers,               \* the reconnect timers that are pending
  wsOwner,              \* the client that constructed the socket; NoId: not constructed
  wsState,              \* readyState of the client end of the socket
  toServer,             \* frames written by the client end, not yet read by the relay
  toClient,             \* frames written by the relay, not yet delivered to the client
  \* peer session manager (hooks/useMediaStream.ts: useWebRTC), per client
  participants,         \* the participants state (peer id -> participant object)
  participantsRef,      \* participantsRef.current
  effectPending,        \* the effect that copies participants to the ref has not run yet
  updates,              \* setParticipants updaters not yet processed by a render
  pcs,                  \* the participant objects with their RTCPeerConnection
  candidates,           \* number of ice-candidate messages delivered so far
  descriptions,         \* number of offer and answer messages delivered so far
  \* local media of the client Local (hooks/useMediaStream.ts, app/room/[roomId]/page.tsx)
  localStream,          \* the stream useMediaStream returns, by its number; NoStream: null
  trackEnabled,         \* enabled of the audio track of each stream
  isMicEnabled,         \* the isMicEnabled state
  senders,              \* pc.getSenders() of each RTCPeerConnection
  originalAudioTrackRef,\* originalAudioTrackRef.current: the stream of the track; NoStream: null
  bound,                \* the render whose callbacks the onmessage of each socket holds
  \* relay (backend/src/index.ts, backend/src/ws/signaling.ts)
  readyState,       \* ws.readyState of each server-side socket; CONNECTING: not yet accepted
  connRoomId,       \* roomId of the connection handler's closure
  participantId,    \* participantId of the connection handler's closure (wsToParticipant)
  roomConnections,  \* roomId -> Map(participant id -> WSContext)
  last,             \* the relay operation handled last: its input, the registry before it, its sends
  member            \* history: the connections that have joined and have not left since

relayVars == <<readyState, connRoomId, participantId, roomConnections, last, member>>

channelVars ==
  <<enabled, wsRef, shouldReconnectRef, reconnectTimeoutRef, timers, wsOwner, wsState,
    toServer, toClient>>

peerVars ==
  <<participants, participantsRef, effectPending, updates, pcs, candidates, descriptions>>

mediaVars ==
  <<localStream, trackEnabled, isMicEnabled, senders, originalAudioTrackRef, bound>>

vars == <<relayVars, channelVars, peerVars, mediaVars>>

(***************************************************************************)
(* The relay: signalingHandler (backend/src/ws/signaling.ts).              *)
(* A handler returns the room's connections after it and the sends it      *)
(* made, in order; a send is the socket written to and the message.        *)
(***************************************************************************)
\* WSContext built per message: the send function of the socket and a copy
\* of ws.readyState taken when the message arrived
WSContext(c, rs) == [conn |-> c, readyState |-> rs]

Send(ws, m) == [conn |-> ws.conn, msg |-> m]

Result(connections, sends) == [connections |-> connections, sends |-> sends]

\* connections.forEach((otherWs, id) => { if (cond(id) && otherWs.readyState === 1) otherWs.send(m) })
RECURSIVE Broadcast(_, _, _)
Broadcast(connections, except, m) ==
  IF connections = <<>> THEN <<>>
  ELSE LET e == Head(connections)
           rest == Broadcast(Tail(connections), except, m)
       IN IF e.key \notin except /\ e.val.readyState = OPEN
          THEN <<Send(e.val, m)>> \o rest
          ELSE rest

\* Array.from(connections.keys()).filter((id) => id !== message.from)
existingParticipants(connections, message) ==
  SelectSeq(MapKeys(connections), LAMBDA id : id # message.from)

\* (mutant) the joiner is not filtered from the list it is sent
HandleJoin_ListsJoiner(connections, ws, message) ==
  LET conns == MapSet(connections, message.from, ws)
      reply == [Msg("participants", NoId, NoId) EXCEPT
                  !.participants = Some(MapKeys(conns))]
      joined == Msg("participant-joined", message.from, NoId)
  IN Result(conns, <<Send(ws, reply)>> \o Broadcast(conns, {message.from}, joined))

\* case "join"
HandleJoin(connections, ws, message) ==
  LET conns == MapSet(connections, message.from, ws)
      reply == [Msg("participants", NoId, NoId) EXCEPT
                  !.participants = Some(existingParticipants(conns, message))]
      joined == Msg("participant-joined", message.from, NoId)
  IN Result(conns, <<Send(ws, reply)>> \o Broadcast(conns, {message.from}, joined))

\* case "offer"
HandleOffer(connections, ws, message) ==
  IF message.to # NoId /\ MapHas(connections, message.to)
     /\ MapGet(connections, message.to).readyState = OPEN
  THEN Result(connections,
              <<Send(MapGet(connections, message.to),
                     [Msg("offer", message.from, message.to) EXCEPT !.sdp = message.sdp])>>)
  ELSE Result(connections, <<>>)

\* case "answer"
HandleAnswer(connections, ws, message) ==
  IF message.to # NoId /\ MapHas(connections, message.to)
     /\ MapGet(connections, message.to).readyState = OPEN
  THEN Result(connections,
              <<Send(MapGet(connections, message.to),
                     [Msg("answer", message.from, message.to) EXCEPT !.sdp = message.sdp])>>)
  ELSE Result(connections, <<>>)

\* case "ice-candidate"
HandleIceCandidate(connections, ws, message) ==
  IF message.to # NoId /\ MapHas(connections, message.to)
     /\ MapGet(connections, message.to).readyState = OPEN
  THEN Result(connections,
              <<Send(MapGet(connections, message.to),
                     [Msg("ice-candidate", message.from, message.to) EXCEPT
                        !.candidate = message.candidate])>>)
  ELSE Result(connections, <<>>)

\* case "leave"
HandleLeave(connections, ws, message) ==
  LET conns == MapDelete(connections, message.from)
  IN Result(conns, Broadcast(conns, {}, Msg("participant-left", message.from, NoId)))

\* (mutant) the kicked participant is notified and left in the registry
HandleKick_KeepsTarget(connections, ws, message) ==
  IF message.to # NoId /\ MapHas(connections, message.to)
     /\ MapGet(connections, message.to).readyState = OPEN
  THEN Result(connections,
              <<Send(MapGet(connections, message.to), Msg("kicked", message.from, NoId))>>
              \o Broadcast(connections, {message.to},
                           Msg("participant-left", message.to, NoId)))
  ELSE Result(connections, <<>>)

\* case "kick"
HandleKick(connections, ws, message) ==
  IF message.to # NoId /\ MapHas(connections, message.to)
     /\ MapGet(connections, message.to).readyState = OPEN
  THEN LET targetWs == MapGet(connections, message.to)
           conns == MapDelete(connections, message.to)
       IN Result(conns,
                 <<Send(targetWs, Msg("kicked", message.from, NoId))>>
                 \o Broadcast(conns, {message.to},
                              Msg("participant-left", message.to, NoId)))
  ELSE Result(connections, <<>>)

\* case "mute": the forwarded message carries type, from and muted, and no to
HandleMute(connections, ws, message) ==
  IF message.to # NoId /\ MapHas(connections, message.to)
     /\ MapGet(connections, message.to).readyState = OPEN
  THEN Result(connections,
              <<Send(MapGet(connections, message.to),
                     [Msg("mute", message.from, NoId) EXCEPT !.muted = message.muted])>>)
  ELSE Result(connections, <<>>)

\* (mutant) the toggle is sent to every registered participant, its sender included
HandleAudioToggle_Echo(connections, ws, message) ==
  Result(connections,
         Broadcast(connections, {},
                   [Msg("audio-toggle", message.from, NoId) EXCEPT
                      !.audioEnabled = message.audioEnabled]))

\* case "audio-toggle"
HandleAudioToggle(connections, ws, message) ==
  Result(connections,
         Broadcast(connections, {message.from},
                   [Msg("audio-toggle", message.from, NoId) EXCEPT
                      !.audioEnabled = message.audioEnabled]))

\* the switch of signalingHandler on an initialised room
Dispatch(connections, ws, message) ==
  CASE message.type = "join" -> HandleJoin(connections, ws, message)
    [] message.type = "offer" -> HandleOffer(connections, ws, message)
    [] message.type = "answer" -> HandleAnswer(connections, ws, message)
    [] message.type = "ice-candidate" -> HandleIceCandidate(connections, ws, message)
    [] message.type = "leave" -> HandleLeave(connections, ws, message)
    [] message.type = "kick" -> HandleKick(connections, ws, message)
    [] message.type = "mute" -> HandleMute(connections, ws, message)
    [] message.type = "audio-toggle" -> HandleAudioToggle(connections, ws, message)
    [] OTHER -> Result(connections, <<>>)

\* roomConnections.has(roomId)
HasRoom(rc, roomId) == roomId \in DOMAIN rc

\* roomConnections.set(roomId, connections)
SetRoom(rc, roomId, connections) ==
  [r \in (DOMAIN rc) \cup {roomId} |-> IF r = roomId THEN connections ELSE rc[r]]

\* roomConnections.delete(roomId)
DeleteRoom(rc, roomId) == [r \in (DOMAIN rc) \ {roomId} |-> rc[r]]

\* signalingHandler(event, ws, roomId): the registry after it and its sends
signalingHandler(rc, ws, roomId, message) ==
  LET rc1 == IF HasRoom(rc, roomId) THEN rc ELSE SetRoom(rc, roomId, EmptyMap)
      r == Dispatch(rc1[roomId], ws, message)
  IN [registry |-> SetRoom(rc1, roomId, r.connections), sends |-> r.sends]

\* (mutant) the close of a connection notifies the room and keeps the entry
cleanupRoomConnection_KeepsEntry(rc, roomId, pid) ==
  IF HasRoom(rc, roomId)
  THEN [registry |-> rc,
        sends |-> Broadcast(rc[roomId], {pid}, Msg("participant-left", pid, NoId))]
  ELSE [registry |-> rc, sends |-> <<>>]

\* cleanupRoomConnection(roomId, participantId)
cleanupRoomConnection(rc, roomId, pid) ==
  IF HasRoom(rc, roomId)
  THEN LET conns == MapDelete(rc[roomId], pid)
           sends == Broadcast(conns, {}, Msg("participant-left", pid, NoId))
       IN [registry |-> IF Len(conns) = 0 THEN DeleteRoom(rc, roomId)
                        ELSE SetRoom(rc, roomId, conns),
           sends |-> sends]
  ELSE [registry |-> rc, sends |-> <<>>]


(***************************************************************************)
(* The relay's connection handlers: wss.on("connection") (index.ts).       *)
(***************************************************************************)
\* ws.send(data) of the ws library: the frame is written when the socket is
\* OPEN, and dropped once it is closing or closed
Writable(c) == readyState[c] = OPEN

\* the sends of a handler with, for each, whether the socket took the frame
Attempts(sends) ==
  [i \in 1..Len(sends) |->
     [conn |-> sends[i].conn, msg |-> sends[i].msg, open |-> Writable(sends[i].conn)]]

NoMsg == Msg("none", NoId, NoId)

\* between two events the relay's event loop is idle
Idle ==
  [op |-> "idle", conn |-> 0, roomId |-> NoRoom, message |-> NoMsg,
   pre |-> << >>, sends |-> <<>>]

Last(op, c, message, sends) ==
  [op |-> op, conn |-> c, roomId |-> connRoomId[c], message |-> message,
   pre |-> roomConnections, sends |-> Attempts(sends)]

\* the messages a connection may send to the relay
\* (join, leave and the routed types carry a from; a message of a type the
\* switch does not know may lack it)
ClientMessages ==
  {Msg(t, f, NoId) : t \in {"join", "leave"}, f \in Pids}
  \cup {Msg(UnknownType, f, NoId) : f \in Ids}
  \cup {[Msg(t, f, to) EXCEPT !.sdp = Some(p)] :
          t \in {"offer", "answer"}, f \in Pids, to \in Ids, p \in Payloads}
  \cup {[Msg("ice-candidate", f, to) EXCEPT !.candidate = Some(p)] :
          f \in Pids, to \in Ids, p \in Payloads}
  \cup {Msg("kick", f, to) : f \in Pids, to \in Ids}
  \cup {[Msg("mute", f, to) EXCEPT !.muted = Some(b)] :
          f \in Pids, to \in Ids, b \in BOOLEAN}
  \cup {[Msg("audio-toggle", f, NoId) EXCEPT !.audioEnabled = Some(b)] :
          f \in Pids, b \in BOOLEAN}

\* wss.on("connection", (ws, req) => ...): a path without a room id is closed
\* at once and gets no handlers
Connection(c, roomId) ==
  /\ last = Idle
  /\ readyState[c] = CONNECTING
  /\ readyState' = [readyState EXCEPT ![c] = IF roomId = NoRoom THEN CLOSED ELSE OPEN]
  /\ connRoomId' = [connRoomId EXCEPT ![c] = roomId]
  /\ last' = [Last("connection", c, NoMsg, <<>>) EXCEPT !.roomId = roomId]
  /\ UNCHANGED <<participantId, roomConnections>>

\* the transport of a socket ends (a close frame, a lost connection): the
\* socket leaves OPEN, and its close event is emitted later
SocketClosing(c) ==
  /\ last = Idle
  /\ readyState[c] = OPEN
  /\ readyState' = [readyState EXCEPT ![c] = CLOSING]
  /\ UNCHANGED <<connRoomId, participantId, roomConnections, last>>

\* (mutant) the room is initialised before the frame is parsed
OnUnparsable_InitialisesRoom(c) ==
  /\ last = Idle
  /\ readyState[c] = OPEN
  /\ last' = Last("unparsable", c, NoMsg,
                  <<Send(WSContext(c, readyState[c]),
                         [Msg("error", NoId, NoId) EXCEPT
                            !.message = Some("Failed to process message")])>>)
  /\ roomConnections' =
       IF HasRoom(roomConnections, connRoomId[c]) THEN roomConnections
       ELSE SetRoom(roomConnections, connRoomId[c], EmptyMap)
  /\ UNCHANGED <<readyState, connRoomId, participantId>>

\* ws.on("message"): a frame that does not parse is answered with an error
OnUnparsable(c) ==
  /\ last = Idle
  /\ readyState[c] = OPEN
  /\ last' = Last("unparsable", c, NoMsg,
                  <<Send(WSContext(c, readyState[c]),
                         [Msg("error", NoId, NoId) EXCEPT
                            !.message = Some("Failed to process message")])>>)
  /\ UNCHANGED <<readyState, connRoomId, participantId, roomConnections>>

\* ws.on("message"): the first message with a from names the connection's
\* participant; the handler gets a WSContext with a copy of ws.readyState
OnMessage(c, message) ==
  /\ last = Idle
  /\ readyState[c] = OPEN
  /\ participantId' =
       IF message.from # NoId /\ participantId[c] = NoId
       THEN [participantId EXCEPT ![c] = message.from]
       ELSE participantId
  /\ LET r == signalingHandler(roomConnections, WSContext(c, readyState[c]),
                               connRoomId[c], message)
     IN /\ roomConnections' = r.registry
        /\ last' = Last("message", c, message, r.sends)
  /\ UNCHANGED <<readyState, connRoomId>>

\* ws.on("close")
OnClose(c) ==
  /\ last = Idle
  /\ readyState[c] \in {OPEN, CLOSING}
  /\ readyState' = [readyState EXCEPT ![c] = CLOSED]
  /\ LET r == IF participantId[c] # NoId
              THEN cleanupRoomConnection(roomConnections, connRoomId[c], participantId[c])
              ELSE [registry |-> roomConnections, sends |-> <<>>]
     IN /\ roomConnections' = r.registry
        /\ last' = [Last("close", c, Msg("close", participantId[c], NoId), r.sends) EXCEPT
                      !.sends = [i \in 1..Len(r.sends) |->
                                   [conn |-> r.sends[i].conn, msg |-> r.sends[i].msg,
                                    open |-> readyState'[r.sends[i].conn] = OPEN]]]
  \* the closure of a closed connection is garbage
  /\ connRoomId' = [connRoomId EXCEPT ![c] = NoRoom]
  /\ participantId' = [participantId EXCEPT ![c] = NoId]

\* the handler returns: the event loop takes the next event
\* connections and rooms are named in the order of their first use
FirstUse(c, roomId) ==
  /\ \A d \in Conns : d < c => readyState[d] # CONNECTING
  /\ roomId = "r2" => c > 1

HandlerReturn ==
  /\ last # Idle
  /\ last' = Idle
  /\ UNCHANGED <<readyState, connRoomId, participantId, roomConnections>>

InitRelay ==
  /\ readyState = [c \in Sockets |-> CONNECTING]
  /\ connRoomId = [c \in Sockets |-> NoRoom]
  /\ participantId = [c \in Sockets |-> NoId]
  /\ roomConnections = << >>
  /\ last = Idle
  /\ member = {}

(***************************************************************************)
(* The clients.  A client is named by its participant id.  The operators   *)
(* below take the client-side state as a record and return it changed, so  *)
(* that a handler that calls several functions is one action.              *)
(***************************************************************************)
Client ==
  [wsRef |-> wsRef, shouldReconnectRef |-> shouldReconnectRef,
   reconnectTimeoutRef |-> reconnectTimeoutRef, timers |-> timers,
   wsOwner |-> wsOwner, wsState |-> wsState, toServer |-> toServer,
   updates |-> updates, pcs |-> pcs]

Becomes(s) ==
  /\ wsRef' = s.wsRef
  /\ shouldReconnectRef' = s.shouldReconnectRef
  /\ reconnectTimeoutRef' = s.reconnectTimeoutRef
  /\ timers' = s.timers
  /\ wsOwner' = s.wsOwner
  /\ wsState' = s.wsState
  /\ toServer' = s.toServer
  /\ updates' = s.updates
  /\ pcs' = s.pcs

(***************************************************************************)
(* The signaling channel: useWebSocket (hooks/useWebSocket.ts).            *)
(***************************************************************************)
\* reconnectTimeoutRef.current === undefined
NoTimer == 0

FreeSockets(s) == {w \in Sockets : s.wsOwner[w] = NoId}

\* new WebSocket(url): the sockets are named in the order of their construction
NewSocket(s) == CHOOSE w \in FreeSockets(s) : \A v \in FreeSockets(s) : w <= v

\* wsRef.current && (readyState === OPEN || readyState === CONNECTING)
HasLiveRef(s, p) ==
  s.wsRef[p] # NoSocket /\ s.wsState[s.wsRef[p]] \in {OPEN, CONNECTING}

\* connect() would not construct a socket, or one is left to construct
CanConnect(s, p) == HasLiveRef(s, p) \/ FreeSockets(s) # {}

\* ws.send(data) on the client end of a socket
wsSend(s, w, m) ==
  IF s.wsState[w] = OPEN THEN [s EXCEPT !.toServer[w] = Append(@, m)] ELSE s

\* ws.close(): the socket starts closing, its close event comes later
wsClose(s, w) ==
  IF s.wsState[w] \in {CONNECTING, OPEN} THEN [s EXCEPT !.wsState[w] = CLOSING] ELSE s

clearTimeout(s, t) == [s EXCEPT !.timers = @ \ {t}]

\* connect(), with the value of enabled in its closure
connect(s, p, en) ==
  IF ~en THEN s
  ELSE IF HasLiveRef(s, p) THEN s
  ELSE LET ws == NewSocket(s)
       IN [s EXCEPT !.wsOwner[ws] = p, !.wsState[ws] = CONNECTING, !.wsRef[p] = ws]

\* (mutant) sendMessage writes to wsRef.current whatever its readyState
sendMessage_AnyState(s, p, m) ==
  IF s.wsRef[p] # NoSocket
  THEN [s EXCEPT !.toServer[s.wsRef[p]] = Append(@, m)]
  ELSE s

\* sendMessage(message): a no-op when the channel is not open
\* (sendMessageRef.current is sendMessage from the first commit on)
sendMessage(s, p, m) ==
  IF s.wsRef[p] # NoSocket /\ s.wsState[s.wsRef[p]] = OPEN
  THEN wsSend(s, s.wsRef[p], m)
  ELSE s

\* disconnect()
disconnect(s, p) ==
  LET s1 == [s EXCEPT !.shouldReconnectRef[p] = FALSE]
      s2 == IF s1.reconnectTimeoutRef[p] # NoTimer
            THEN clearTimeout(s1, s1.reconnectTimeoutRef[p])
            ELSE s1
      ws == s2.wsRef[p]
  IN IF ws # NoSocket
     THEN LET s3 == IF s2.wsState[ws] = OPEN
                    THEN wsSend(s2, ws, Msg("leave", p, NoId))
                    ELSE s2
          IN [wsClose(s3, ws) EXCEPT !.wsRef[p] = NoSocket]
     ELSE s2

\* the cleanup function the effect returns
effectCleanup(s, p) ==
  LET s1 == [s EXCEPT !.shouldReconnectRef[p] = FALSE]
      s2 == IF s1.reconnectTimeoutRef[p] # NoTimer
            THEN clearTimeout(s1, s1.reconnectTimeoutRef[p])
            ELSE s1
      ws == s2.wsRef[p]
  IN IF ws # NoSocket
     THEN LET s3 == IF s2.wsState[ws] = OPEN
                    THEN wsSend(s2, ws, Msg("leave", p, NoId))
                    ELSE s2
          IN [wsClose(s3, ws) EXCEPT !.wsRef[p] = NoSocket]
     ELSE s2

\* useEffect(..., [enabled, roomId, participantId]): a dependency changed, the
\* cleanup of the previous run and then the effect run, with enabled = en
EffectRun(p, en) ==
  LET s1 == effectCleanup(Client, p)
      s2 == IF en THEN [s1 EXCEPT !.shouldReconnectRef[p] = TRUE] ELSE s1
  IN /\ en => CanConnect(s2, p)
     /\ Becomes(connect(s2, p, en))
     /\ enabled' = [enabled EXCEPT ![p] = en]
     /\ UNCHANGED <<toClient, participants, participantsRef, effectPending, candidates,
                    descriptions>>

\* the disconnect function the hook returns is called
Disconnect(p) ==
  /\ Becomes(disconnect(Client, p))
  /\ UNCHANGED <<enabled, toClient, participants, participantsRef, effectPending, candidates,
                 descriptions>>

\* (mutant) the channel opens and announces nobody
WsOnOpen_NoJoin(w) ==
  /\ wsOwner[w] # NoId
  /\ wsState[w] = CONNECTING
  /\ Becomes([Client EXCEPT !.wsState[w] = OPEN])
  /\ UNCHANGED <<enabled, toClient, participants, participantsRef, effectPending, candidates,
                 descriptions>>

\* ws.onopen
WsOnOpen(w) ==
  /\ wsOwner[w] # NoId
  /\ wsState[w] = CONNECTING
  /\ Becomes(wsSend([Client EXCEPT !.wsState[w] = OPEN], w, Msg("join", wsOwner[w], NoId)))
  /\ UNCHANGED <<enabled, toClient, participants, participantsRef, effectPending, candidates,
                 descriptions>>

\* ws.onclose, after a close() or unexpected.  connect() constructs a socket
\* only with enabled true, so enabled is true in the closure of every onclose.
WsOnClose(w) ==
  /\ wsOwner[w] # NoId
  /\ wsState[w] \in {CONNECTING, OPEN, CLOSING}
  /\ LET p == wsOwner[w]
         s1 == [Client EXCEPT !.wsState[w] = CLOSED, !.wsRef[p] = NoSocket]
     IN Becomes(IF s1.shouldReconnectRef[p]
                THEN [s1 EXCEPT !.timers = @ \cup {w}, !.reconnectTimeoutRef[p] = w]
                ELSE s1)
  /\ toClient' = [toClient EXCEPT ![w] = <<>>]
  /\ UNCHANGED <<enabled, participants, participantsRef, effectPending, candidates,
                 descriptions>>

\* the callback of setTimeout(() => connect(), 3000), set by the onclose of
\* socket t: it calls the connect of the same closure
TimerFires(t) ==
  /\ t \in timers
  /\ LET s1 == [Client EXCEPT !.timers = @ \ {t}]
     IN /\ CanConnect(s1, wsOwner[t])
        /\ Becomes(connect(s1, wsOwner[t], TRUE))
  /\ UNCHANGED <<enabled, toClient, participants, participantsRef, effectPending, candidates,
                 descriptions>>

\* the hook is mounted and enabled is false: the effect has run and done nothing
InitChannel ==
  /\ enabled = [p \in Pids |-> FALSE]
  /\ wsRef = [p \in Pids |-> NoSocket]
  /\ shouldReconnectRef = [p \in Pids |-> TRUE]
  /\ reconnectTimeoutRef = [p \in Pids |-> NoTimer]
  /\ timers = {}
  /\ wsOwner = [w \in Sockets |-> NoId]
  /\ wsState = [w \in Sockets |-> CONNECTING]
  /\ toServer = [w \in Sockets |-> <<>>]
  /\ toClient = [w \in Sockets |-> <<>>]

(***************************************************************************)
(* The peer session manager: useWebRTC (hooks/useMediaStream.ts).          *)
(* A participant object and the RTCPeerConnection it holds are one entry   *)
(* of pcs.  The operations of an RTCPeerConnection settle one at a time    *)
(* in the order of their calls (its operations chain); an entry of ops is  *)
(* a call that has not settled, with the place of the handler that awaits  *)
(* it.                                                                     *)
(***************************************************************************)
NoPcRec ==
  [owner |-> NoId, peer |-> NoId, closed |-> FALSE, signalingState |-> "stable",
   remoteDescription |-> FALSE, offered |-> FALSE, ops |-> <<>>, applied |-> <<>>,
   pendingCandidates |-> Absent, audioEnabled |-> Absent, failed |-> <<>>]

FreePcs(s) == {k \in PcIds : s.pcs[k].owner = NoId}

NewPc(s) == CHOOSE k \in FreePcs(s) : \A j \in FreePcs(s) : k <= j

\* createPeerConnection(peerId), the new RTCPeerConnection being entry k
createPeerConnection(s, k, p, peerId) ==
  [s EXCEPT !.pcs[k] = [NoPcRec EXCEPT !.owner = p, !.peer = peerId]]

\* setParticipants(updater): the updater runs when React processes the queue
setParticipants(s, p, u) == [s EXCEPT !.updates[p] = Append(@, u)]

\* the updaters of the handlers
UpdSet(peerId, k) == [kind |-> "set", peer |-> peerId, pc |-> k, candidate |-> 0]
UpdDelete(peerId) == [kind |-> "delete", peer |-> peerId, pc |-> NoPc, candidate |-> 0]
UpdQueue(peerId, c) == [kind |-> "queue", peer |-> peerId, pc |-> NoPc, candidate |-> c]
UpdClear(peerId) == [kind |-> "clear", peer |-> peerId, pc |-> NoPc, candidate |-> 0]
UpdAudio(peerId, en) ==
  [kind |-> "audio", peer |-> peerId, pc |-> NoPc, candidate |-> 0, audioEnabled |-> en]

\* a call on a peer connection and the place that awaits it; a call made by
\* the loop of processQueuedCandidates carries the loop's state: the object
\* whose array it iterates, its index, the array when it is no longer the
\* object's, and the handler the loop returns to
Op(op, arg, then) ==
  [op |-> op, arg |-> arg, then |-> then, obj |-> NoPc, idx |-> 0, frozen |-> Absent,
   next |-> "none"]

FlushOp(c, obj, idx, frozen, next) ==
  [op |-> "addIceCandidate", arg |-> c, then |-> "flush", obj |-> obj, idx |-> idx,
   frozen |-> frozen, next |-> next]

RECURSIVE Enqueue(_, _, _)
RECURSIVE Settled(_, _, _, _)
RECURSIVE flushNext(_, _, _, _, _, _)

\* (mutant) the offer case ends after the queue is flushed: no answer is created
afterFlush_NoAnswer(s, k, next) == s

\* the handler continues after processQueuedCandidates: the offer case
\* creates the answer, the answer case ends
afterFlush(s, k, next) ==
  IF next = "offer" THEN Enqueue(s, k, Op("createAnswer", "none", "answerCreated")) ELSE s

\* for (const candidate of participant.pendingCandidates) { await
\* pc.addIceCandidate(candidate) } and, after the loop, the updater that
\* clears the queue
flushNext(s, k, obj, idx, frozen, next) ==
  LET arr == IF frozen = Absent THEN s.pcs[obj].pendingCandidates[1] ELSE frozen[1]
  IN IF idx <= Len(arr)
     THEN Enqueue(s, k, FlushOp(arr[idx], obj, idx, frozen, next))
     ELSE afterFlush(setParticipants(s, s.pcs[k].owner, UpdClear(s.pcs[k].peer)), k, next)

\* processQueuedCandidates(peerId, pc), pc being entry k
processQueuedCandidates(s, k, next) ==
  LET participant == participantsRef[s.pcs[k].owner][s.pcs[k].peer]
  IN IF participant # NoPc /\ s.pcs[participant].pendingCandidates # Absent
     THEN flushNext(s, k, participant, 1, Absent, next)
     ELSE afterFlush(s, k, next)

\* (mutant) a candidate of the queue that is rejected ends the loop
afterCandidate_Aborts(s, k, o, ok) ==
  IF ok THEN flushNext(s, k, o.obj, o.idx + 1, o.frozen, o.next) ELSE s

\* try { await pc.addIceCandidate(...) } catch (err) { console.error(...) }
\* in the loop: the loop goes on to the next candidate either way
afterCandidate(s, k, o, ok) == flushNext(s, k, o.obj, o.idx + 1, o.frozen, o.next)

\* the code after an awaited call o on entry k, the call fulfilled (ok) or
\* rejected
Settled(s, k, o, ok) ==
  LET p == s.pcs[k].owner
      peerId == s.pcs[k].peer
  IN CASE o.then = "offerCreated" ->
            IF ok THEN Enqueue(s, k, Op("setLocalDescription", "offer", "offerSet")) ELSE s
       [] o.then = "offerSet" ->
            IF ok
            THEN sendMessage([s EXCEPT !.pcs[k].offered =
                                @ \/ (s.wsRef[p] # NoSocket /\ s.wsState[s.wsRef[p]] = OPEN)],
                             p, [Msg("offer", p, peerId) EXCEPT !.sdp = Some("offer")])
            ELSE s
       [] o.then = "remoteOfferSet" ->
            IF ok THEN processQueuedCandidates(s, k, "offer") ELSE s
       [] o.then = "remoteAnswerSet" ->
            IF ok THEN processQueuedCandidates(s, k, "answer") ELSE s
       [] o.then = "flush" -> afterCandidate(s, k, o, ok)
       [] o.then = "answerCreated" ->
            IF ok THEN Enqueue(s, k, Op("setLocalDescription", "answer", "answerSet")) ELSE s
       [] o.then = "answerSet" ->
            IF ok
            THEN sendMessage(s, p, [Msg("answer", p, peerId) EXCEPT !.sdp = Some("answer")])
            ELSE s
       [] OTHER -> s

\* a call on a peer connection: it joins the operations chain; on a closed
\* connection it is rejected
Enqueue(s, k, o) ==
  IF s.pcs[k].closed THEN Settled(s, k, o, FALSE)
  ELSE [s EXCEPT !.pcs[k].ops = Append(@, o)]

\* pc.close(): the calls that have not settled never do; what was applied
\* to the connection goes with it
pcClose(s, k) ==
  [s EXCEPT !.pcs[k].closed = TRUE, !.pcs[k].signalingState = "closed",
            !.pcs[k].ops = <<>>, !.pcs[k].applied = <<>>]

\* case "participants": message.participants.forEach(...)
RECURSIVE forEachParticipant(_, _, _)
forEachParticipant(s, p, ids) ==
  IF ids = <<>> THEN s
  ELSE LET peerId == Head(ids)
       IN IF participantsRef[p][peerId] = NoPc
          THEN LET k == NewPc(s)
                   s1 == setParticipants(createPeerConnection(s, k, p, peerId), p,
                                         UpdSet(peerId, k))
               IN forEachParticipant(Enqueue(s1, k, Op("createOffer", "none", "offerCreated")),
                                     p, Tail(ids))
          ELSE forEachParticipant(s, p, Tail(ids))

\* (mutant) the participant-joined case starts an offer as the participants case does
handleSignalingMessage_JoinedOffers(s, p, message) ==
  LET from == message.from
      known == IF from \in Pids THEN participantsRef[p][from] ELSE NoPc
  IN CASE message.type = "participants" ->
            forEachParticipant(s, p, message.participants[1])
       [] message.type = "participant-joined" ->
            LET k == NewPc(s)
                s1 == setParticipants(createPeerConnection(s, k, p, from), p, UpdSet(from, k))
            IN Enqueue(s1, k, Op("createOffer", "none", "offerCreated"))
       [] message.type = "offer" ->
            IF known = NoPc
            THEN LET k == NewPc(s)
                     s1 == setParticipants(createPeerConnection(s, k, p, from), p,
                                           UpdSet(from, k))
                 IN Enqueue(s1, k, Op("setRemoteDescription", message.sdp[1], "remoteOfferSet"))
            ELSE Enqueue(s, known, Op("setRemoteDescription", message.sdp[1], "remoteOfferSet"))
       [] message.type = "answer" ->
            IF known # NoPc
            THEN Enqueue(s, known, Op("setRemoteDescription", message.sdp[1], "remoteAnswerSet"))
            ELSE s
       [] message.type = "ice-candidate" ->
            IF known # NoPc /\ message.candidate # Absent
            THEN IF ~s.pcs[known].remoteDescription
                 THEN setParticipants(s, p, UpdQueue(from, message.candidate[1]))
                 ELSE Enqueue(s, known,
                              Op("addIceCandidate", message.candidate[1], "candidateAdded"))
            ELSE s
       [] message.type = "participant-left" ->
            setParticipants(IF known # NoPc THEN pcClose(s, known) ELSE s, p, UpdDelete(from))
       [] OTHER -> s

\* handleSignalingMessage(message) up to its first await
handleSignalingMessage(s, p, message) ==
  LET from == message.from
      known == IF from \in Pids THEN participantsRef[p][from] ELSE NoPc
  IN CASE message.type = "participants" ->
            forEachParticipant(s, p, message.participants[1])
       [] message.type = "participant-joined" ->
            LET k == NewPc(s)
            IN setParticipants(createPeerConnection(s, k, p, from), p, UpdSet(from, k))
       [] message.type = "offer" ->
            IF known = NoPc
            THEN LET k == NewPc(s)
                     s1 == setParticipants(createPeerConnection(s, k, p, from), p,
                                           UpdSet(from, k))
                 IN Enqueue(s1, k, Op("setRemoteDescription", message.sdp[1], "remoteOfferSet"))
            ELSE Enqueue(s, known, Op("setRemoteDescription", message.sdp[1], "remoteOfferSet"))
       [] message.type = "answer" ->
            IF known # NoPc
            THEN Enqueue(s, known, Op("setRemoteDescription", message.sdp[1], "remoteAnswerSet"))
            ELSE s
       [] message.type = "ice-candidate" ->
            IF known # NoPc /\ message.candidate # Absent
            THEN IF ~s.pcs[known].remoteDescription
                 THEN setParticipants(s, p, UpdQueue(from, message.candidate[1]))
                 ELSE Enqueue(s, known,
                              Op("addIceCandidate", message.candidate[1], "candidateAdded"))
            ELSE s
       [] message.type = "participant-left" ->
            setParticipants(IF known # NoPc THEN pcClose(s, known) ELSE s, p, UpdDelete(from))
       [] message.type = "audio-toggle" ->
            setParticipants(s, p, UpdAudio(from, message.audioEnabled))
       [] OTHER -> s

\* the peer connections a message makes the handler create
PcsNeeded(p, message) ==
  CASE message.type = "participants" ->
         Cardinality({i \in 1..Len(message.participants[1]) :
                        participantsRef[p][message.participants[1][i]] = NoPc})
    [] message.type = "participant-joined" -> 1
    [] message.type = "offer" -> IF participantsRef[p][message.from] = NoPc THEN 1 ELSE 0
    [] OTHER -> 0

\* ws.onmessage: onMessage(message) is handleSignalingMessage(message)
onmessage(w, message) ==
  /\ wsOwner[w] # NoId
  /\ wsState[w] = OPEN
  /\ PcsNeeded(wsOwner[w], message) <= Cardinality(FreePcs(Client))
  /\ Becomes(handleSignalingMessage(Client, wsOwner[w], message))
  /\ UNCHANGED <<enabled, participants, participantsRef, effectPending>>

\* whether the call at the head of the chain is fulfilled: the state checks
\* of RTCPeerConnection.  A remote offer while a local offer is pending
\* (glare) is accepted by an implicit rollback or rejected, by the browser.
Fulfilled(pc, o, rollback) ==
  CASE o.op = "createOffer" -> TRUE
    [] o.op = "createAnswer" -> pc.signalingState = "have-remote-offer"
    [] o.op = "setLocalDescription" ->
         IF o.arg = "offer" THEN pc.signalingState \in {"stable", "have-local-offer"}
         ELSE pc.signalingState = "have-remote-offer"
    [] o.op = "setRemoteDescription" ->
         IF o.arg = "offer"
         THEN \/ pc.signalingState \in {"stable", "have-remote-offer"}
              \/ pc.signalingState = "have-local-offer" /\ rollback
         ELSE pc.signalingState = "have-local-offer"
    [] o.op = "addIceCandidate" -> pc.remoteDescription
    [] OTHER -> FALSE

\* the peer connection after the call at the head of its chain took effect
Applied(pc, o) ==
  CASE o.op = "setLocalDescription" ->
         [pc EXCEPT !.signalingState = IF o.arg = "offer" THEN "have-local-offer" ELSE "stable"]
    [] o.op = "setRemoteDescription" ->
         [pc EXCEPT !.signalingState = IF o.arg = "offer" THEN "have-remote-offer" ELSE "stable",
                    !.remoteDescription = TRUE]
    [] o.op = "addIceCandidate" -> [pc EXCEPT !.applied = Append(@, o.arg)]
    [] OTHER -> pc

\* the call at the head of the chain of entry k settles, and the handler
\* that awaits it runs up to its next await
PcOpSettles(k, rollback) ==
  /\ pcs[k].ops # <<>>
  /\ LET o == Head(pcs[k].ops)
         ok == Fulfilled(pcs[k], o, rollback)
         pc1 == [pcs[k] EXCEPT !.ops = Tail(@)]
         s1 == [Client EXCEPT !.pcs[k] = IF ok THEN Applied(pc1, o) ELSE pc1]
     IN Becomes(Settled(s1, k, o, ok))
  /\ UNCHANGED <<enabled, toClient, participants, participantsRef, effectPending, candidates,
                 descriptions>>

\* (mutant) a rejected call tears the session down
PcOpRejected_Closes(k, rollback) ==
  /\ pcs[k].ops # <<>>
  /\ LET o == Head(pcs[k].ops)
         pc1 == [pcs[k] EXCEPT !.ops = Tail(@), !.failed = Append(@, o)]
     IN /\ ~Fulfilled(pcs[k], o, rollback) \/ o.op = "addIceCandidate"
        /\ Becomes(pcClose([Client EXCEPT !.pcs[k] = pc1], k))
  /\ UNCHANGED <<enabled, toClient, participants, participantsRef, effectPending, candidates, descriptions>>

\* the call at the head of the chain of entry k is rejected, by the state
\* checks of the connection or, for a candidate, because the browser cannot
\* use it (a malformed candidate); the catch of the handler that awaits it
\* runs.  The connection keeps the calls it rejected, for the record.
PcOpRejected(k, rollback) ==
  /\ pcs[k].ops # <<>>
  /\ LET o == Head(pcs[k].ops)
         pc1 == [pcs[k] EXCEPT !.ops = Tail(@), !.failed = Append(@, o)]
     IN /\ ~Fulfilled(pcs[k], o, rollback) \/ o.op = "addIceCandidate"
        /\ Becomes(Settled([Client EXCEPT !.pcs[k] = pc1], k, o, FALSE))
  /\ UNCHANGED <<enabled, toClient, participants, participantsRef, effectPending, candidates,
                 descriptions>>

\* p.pendingCandidates = []: a loop that iterates the array of object obj
\* keeps the array
Freeze(heap, obj) ==
  [k \in PcIds |->
     [heap[k] EXCEPT !.ops =
        [i \in 1..Len(heap[k].ops) |->
           IF heap[k].ops[i].then = "flush" /\ heap[k].ops[i].obj = obj
              /\ heap[k].ops[i].frozen = Absent
           THEN [heap[k].ops[i] EXCEPT !.frozen = heap[obj].pendingCandidates]
           ELSE heap[k].ops[i]]]]

\* (mutant) the audio-toggle updater also closes the connection of the participant
setAudioEnabled_Closes(heap, obj, en) ==
  IF obj # NoPc
  THEN [heap EXCEPT ![obj].audioEnabled = en, ![obj].closed = TRUE,
                    ![obj].signalingState = "closed"]
  ELSE heap

\* if (participant) { participant.audioEnabled = message.audioEnabled }
setAudioEnabled(heap, obj, en) ==
  IF obj # NoPc THEN [heap EXCEPT ![obj].audioEnabled = en] ELSE heap

\* the updaters run in the order of their setParticipants calls; they change
\* the objects of the previous map in place
RECURSIVE applyUpdates(_, _, _)
applyUpdates(us, map, heap) ==
  IF us = <<>> THEN [map |-> map, pcs |-> heap]
  ELSE LET u == Head(us)
           obj == map[u.peer]
       IN CASE u.kind = "set" ->
                 applyUpdates(Tail(us), [map EXCEPT ![u.peer] = u.pc], heap)
            [] u.kind = "delete" ->
                 applyUpdates(Tail(us), [map EXCEPT ![u.peer] = NoPc], heap)
            [] u.kind = "queue" ->
                 applyUpdates(Tail(us), map,
                   IF obj # NoPc
                   THEN [heap EXCEPT ![obj].pendingCandidates =
                           Some((IF @ = Absent THEN <<>> ELSE @[1]) \o <<u.candidate>>)]
                   ELSE heap)
            [] u.kind = "clear" ->
                 applyUpdates(Tail(us), map,
                   IF obj # NoPc
                   THEN [Freeze(heap, obj) EXCEPT ![obj].pendingCandidates = Some(<<>>)]
                   ELSE heap)
            [] u.kind = "audio" ->
                 applyUpdates(Tail(us), map, setAudioEnabled(heap, obj, u.audioEnabled))
            [] OTHER -> applyUpdates(Tail(us), map, heap)

\* React renders: the pending updaters are processed and the state is
\* committed; the effect of the previous commit, if it has not run, runs first
Render(p) ==
  /\ updates[p] # <<>>
  /\ participantsRef' =
       IF effectPending[p] THEN [participantsRef EXCEPT ![p] = participants[p]]
       ELSE participantsRef
  /\ updates' = [updates EXCEPT ![p] = <<>>]
  /\ LET r == applyUpdates(updates[p], participants[p], pcs)
     IN /\ participants' = [participants EXCEPT ![p] = r.map]
        /\ pcs' = r.pcs
  /\ effectPending' = [effectPending EXCEPT ![p] = TRUE]
  /\ UNCHANGED <<enabled, wsRef, shouldReconnectRef, reconnectTimeoutRef, timers, wsOwner,
                 wsState, toServer, toClient, candidates, descriptions>>

\* useEffect(() => { participantsRef.current = participants }, [participants])
SyncRef(p) ==
  /\ effectPending[p]
  /\ participantsRef' = [participantsRef EXCEPT ![p] = participants[p]]
  /\ effectPending' = [effectPending EXCEPT ![p] = FALSE]
  /\ UNCHANGED <<channelVars, participants, updates, pcs, candidates, descriptions>>

InitPeer ==
  /\ participants = [p \in Pids |-> [q \in Pids |-> NoPc]]
  /\ participantsRef = [p \in Pids |-> [q \in Pids |-> NoPc]]
  /\ effectPending = [p \in Pids |-> FALSE]
  /\ updates = [p \in Pids |-> <<>>]
  /\ pcs = [k \in PcIds |-> NoPcRec]
  /\ candidates = 0
  /\ descriptions = 0

\* MediaStream numbers; a stream has one audio and one video track
NumStreams == 2
Streams == 1..NumStreams
NoStream == 0

\* no stream yet, the microphone state as useState(true) sets it
InitMedia ==
  /\ localStream = NoStream
  /\ trackEnabled = [n \in Streams |-> TRUE]
  /\ isMicEnabled = TRUE
  /\ senders = [k \in PcIds |-> <<>>]
  /\ originalAudioTrackRef = NoStream
  /\ bound = [w \in Sockets |-> [localStream |-> NoStream, isMicEnabled |-> TRUE]]

Init == InitRelay /\ InitChannel /\ InitPeer /\ InitMedia

(***************************************************************************)
(* The relay under every client: any connection sends any message.         *)
(***************************************************************************)
RelayNext ==
  \/ \E c \in Conns, roomId \in Rooms \cup {NoRoom} :
       FirstUse(c, roomId) /\ Connection(c, roomId)
  \/ \E c \in Conns : OnUnparsable(c)
  \/ \E c \in Conns, message \in ClientMessages : OnMessage(c, message)
  \/ \E c \in Conns : OnClose(c)
  \/ HandlerReturn

SpecRelay == Init /\ [][RelayNext /\ UNCHANGED <<member, channelVars, peerVars, mediaVars>>]_vars

(***************************************************************************)
(* The relay with the window between the end of a socket's transport and   *)
(* its close event.                                                        *)
(***************************************************************************)
TransportNext ==
  \/ RelayNext
  \/ \E c \in Conns : SocketClosing(c)

SpecRelayTransport ==
  Init /\ [][TransportNext /\ UNCHANGED <<member, channelVars, peerVars, mediaVars>>]_vars

(***************************************************************************)
(* The relay under join, leave and close events only, with the history of  *)
(* which connections have joined and not left.                             *)
(***************************************************************************)
\* the connection registered under an id of a room, if any
RegisteredConn(rc, roomId, id) ==
  IF HasRoom(rc, roomId) /\ MapHas(rc[roomId], id)
  THEN {MapGet(rc[roomId], id).conn}
  ELSE {}

\* a join makes its connection a member; the connection it supersedes (the
\* one registered under the same id before) no longer counts as joined
JoinEvent(c, from) ==
  /\ OnMessage(c, Msg("join", from, NoId))
  /\ member' = (member \ RegisteredConn(roomConnections, connRoomId[c], from)) \cup {c}

LeaveEvent(c, from) ==
  /\ OnMessage(c, Msg("leave", from, NoId))
  /\ member' = member \ {c}

CloseEvent(c) ==
  /\ OnClose(c)
  /\ member' = member \ {c}

MembershipNext ==
  \/ \E c \in Conns, roomId \in Rooms :
       FirstUse(c, roomId) /\ Connection(c, roomId) /\ UNCHANGED member
  \/ \E c \in Conns, from \in Pids : JoinEvent(c, from)
  \/ \E c \in Conns, from \in Pids : LeaveEvent(c, from)
  \/ \E c \in Conns : CloseEvent(c)
  \/ HandlerReturn /\ UNCHANGED member

SpecRelayMembership ==
  Init /\ [][MembershipNext /\ UNCHANGED <<channelVars, peerVars, mediaVars>>]_vars


(***************************************************************************)
(* The relay under clients that behave as useWebSocket does: the first     *)
(* frame of a connection is its join, a leave (one for a join) or a kick   *)
(* carries the id of the connection, and a connection closes at any time.  *)
(***************************************************************************)
DepartureNext ==
  \/ \E c \in Conns, roomId \in Rooms :
       FirstUse(c, roomId) /\ Connection(c, roomId) /\ UNCHANGED member
  \/ \E c \in Conns, from \in Pids : participantId[c] = NoId /\ JoinEvent(c, from)
  \/ \E c \in Conns : c \in member /\ LeaveEvent(c, participantId[c])
  \/ \E c \in Conns, to \in Pids :
       /\ c \in member /\ participantId[c] # to
       /\ OnMessage(c, Msg("kick", participantId[c], to))
       /\ UNCHANGED member
  \/ \E c \in Conns : CloseEvent(c)
  \/ HandlerReturn /\ UNCHANGED member

SpecDeparture ==
  Init /\ [][DepartureNext /\ UNCHANGED <<channelVars, peerVars, mediaVars>>]_vars

(***************************************************************************)
(* One signaling channel under every order of its events.                  *)
(***************************************************************************)
\* the client of the specifications with one client
Local == "A"

ChannelNext ==
  \/ \E en \in BOOLEAN : EffectRun(Local, en)
  \/ Disconnect(Local)
  \/ \E w \in Sockets : WsOnOpen(w)
  \/ \E w \in Sockets : WsOnClose(w)
  \/ \E t \in Sockets : TimerFires(t)

SpecChannel == Init /\ [][ChannelNext /\ UNCHANGED <<relayVars, mediaVars>>]_vars

(***************************************************************************)
(* One signaling channel up to and after its disconnect(): the effect runs *)
(* with enabled true, and runs again when a dependency changes, until      *)
(* disconnect() is called; the events that were pending still occur.       *)
(* shouldReconnectRef is false exactly from the call of disconnect() on.   *)
(***************************************************************************)
DisconnectNext ==
  \/ shouldReconnectRef[Local] /\ EffectRun(Local, TRUE)
  \/ Disconnect(Local)
  \/ \E w \in Sockets : WsOnOpen(w)
  \/ \E w \in Sockets : WsOnClose(w)
  \/ \E t \in Sockets : TimerFires(t)

SpecDisconnect == Init /\ [][DisconnectNext /\ UNCHANGED <<relayVars, mediaVars>>]_vars

(***************************************************************************)
(* One peer session manager on an open channel, under every message the    *)
(* relay may deliver about its peer.                                       *)
(***************************************************************************)
\* calls not yet settled on one peer connection when a further message is
\* delivered
MaxOps == 2

\* updaters not yet processed when a further message is delivered
MaxUpdates == 1

\* offer and answer messages ever delivered
MaxDescriptions == 2

\* the messages the relay delivers about a peer
PeerMessages ==
  {[Msg("participants", NoId, NoId) EXCEPT !.participants = Some(<<q>>)] : q \in Pids \ {Local}}
  \cup {Msg(t, q, NoId) : t \in {"participant-joined", "participant-left"}, q \in Pids \ {Local}}
  \cup {[Msg(t, q, Local) EXCEPT !.sdp = Some(t)] : t \in {"offer", "answer"}, q \in Pids \ {Local}}

\* the component mounts with a media stream: the effect runs with enabled true
Mount(p) ==
  /\ ~enabled[p]
  /\ EffectRun(p, TRUE)

\* a further message is delivered when the relay has read what was sent and
\* the pending work is below the bound
Room(p) ==
  /\ \A w \in Sockets : toServer[w] = <<>>
  /\ Len(updates[p]) < MaxUpdates
  /\ \A k \in PcIds : Len(pcs[k].ops) < MaxOps /\ Len(pcs[k].applied) <= MaxCands

\* a message of the relay arrives
Receive(w, message) ==
  /\ wsOwner[w] # NoId /\ Room(wsOwner[w])
  /\ message.type \in {"offer", "answer"} => descriptions < MaxDescriptions
  /\ onmessage(w, message)
  /\ descriptions' = IF message.type \in {"offer", "answer"} THEN descriptions + 1
                     ELSE descriptions
  /\ UNCHANGED <<toClient, candidates>>

\* an ice-candidate arrives: the candidates are numbered in the order of
\* their arrival
ReceiveCandidate(w, from) ==
  /\ wsOwner[w] # NoId /\ Room(wsOwner[w])
  /\ candidates < MaxCands
  /\ onmessage(w, [Msg("ice-candidate", from, wsOwner[w]) EXCEPT
                     !.candidate = Some(candidates + 1)])
  /\ candidates' = candidates + 1
  /\ UNCHANGED <<toClient, descriptions>>

\* the relay reads a frame
RelayReads(w) ==
  /\ toServer[w] # <<>>
  /\ toServer' = [toServer EXCEPT ![w] = Tail(@)]
  /\ UNCHANGED <<enabled, wsRef, shouldReconnectRef, reconnectTimeoutRef, timers, wsOwner,
                 wsState, toClient, peerVars>>

\* the relay has read every frame the clients sent
Quiet == \A w \in Sockets : toServer[w] = <<>>

PeerNext ==
  \/ Mount(Local)
  \/ \E w \in Sockets : Quiet /\ WsOnOpen(w)
  \/ \E w \in Sockets : RelayReads(w)
  \/ \E w \in Sockets, message \in PeerMessages : Receive(w, message)
  \/ \E w \in Sockets, from \in Pids \ {Local} : ReceiveCandidate(w, from)
  \/ \E k \in PcIds, rollback \in BOOLEAN : Quiet /\ PcOpSettles(k, rollback)
  \/ Quiet /\ Render(Local)
  \/ Quiet /\ SyncRef(Local)

SpecPeer == Init /\ [][PeerNext /\ UNCHANGED <<relayVars, mediaVars>>]_vars


(***************************************************************************)
(* Teardown: the peer session manager under every relay, with the local    *)
(* participant leaving: disconnect() is called (by the page, or by the     *)
(* timeout onKicked sets), or the component unmounts.                      *)
(***************************************************************************)
\* participants.forEach((participant) => participant.peerConnection.close())
RECURSIVE closeEach(_, _, _)
closeEach(s, map, ids) ==
  IF ids = {} THEN s
  ELSE LET q == CHOOSE x \in ids : TRUE
           s1 == IF map[q] # NoPc THEN pcClose(s, map[q]) ELSE s
       IN closeEach(s1, map, ids \ {q})

\* the participants of the first render: useState(new Map())
FirstRenderParticipants == [q \in Pids |-> NoPc]

\* the component unmounts: the cleanup of the effect with no dependencies
\* runs with the participants of the render that created it, the first, and
\* the cleanup of the effect of useWebSocket runs
Unmount(p) ==
  /\ enabled[p]
  /\ Becomes(effectCleanup(closeEach(Client, FirstRenderParticipants, Pids), p))
  /\ UNCHANGED <<enabled, toClient, participants, participantsRef, effectPending, candidates,
                 descriptions>>

TeardownNext ==
  \/ PeerNext
  \/ enabled[Local] /\ Disconnect(Local)
  \/ Unmount(Local)

SpecTeardown == Init /\ [][TeardownNext /\ UNCHANGED <<relayVars, mediaVars>>]_vars


(***************************************************************************)
(* One peer session manager whose peer connections reject calls.           *)
(***************************************************************************)
\* calls rejected, all by one peer connection
MaxRejected == 1

\* the messages of the peer whose handling awaits calls
FailureMessages ==
  {Msg("participant-joined", q, NoId) : q \in Pids \ {Local}}
  \cup {[Msg(t, q, Local) EXCEPT !.sdp = Some(t)] : t \in {"offer", "answer"}, q \in Pids \ {Local}}

FailureNext ==
  \/ Mount(Local)
  \/ \E w \in Sockets : Quiet /\ WsOnOpen(w)
  \/ \E w \in Sockets : RelayReads(w)
  \/ \E w \in Sockets, message \in FailureMessages : Receive(w, message)
  \/ \E w \in Sockets, from \in Pids \ {Local} : ReceiveCandidate(w, from)
  \/ \E k \in PcIds, rollback \in BOOLEAN : Quiet /\ PcOpSettles(k, rollback)
  \/ \E k \in PcIds, rollback \in BOOLEAN :
       /\ Quiet
       /\ \A j \in PcIds : pcs[j].failed = <<>> \/ (j = k /\ Len(pcs[k].failed) < MaxRejected)
       /\ PcOpRejected(k, rollback)
  \/ Quiet /\ Render(Local)
  \/ Quiet /\ SyncRef(Local)

SpecFailure == Init /\ [][FailureNext /\ UNCHANGED <<relayVars, mediaVars>>]_vars

(***************************************************************************)
(* Local media: useMediaStream (hooks/useMediaStream.ts), the room page    *)
(* (app/room/[roomId]/page.tsx) and the audio functions of useWebRTC.      *)
(* The operators take the state of the page, the client state and the      *)
(* media state, as a record and return it changed.                         *)
(***************************************************************************)
Media ==
  [trackEnabled |-> trackEnabled, isMicEnabled |-> isMicEnabled, senders |-> senders,
   originalAudioTrackRef |-> originalAudioTrackRef]

Page == [client |-> Client, media |-> Media]

PageBecomes(s) ==
  /\ Becomes(s.client)
  /\ trackEnabled' = s.media.trackEnabled
  /\ isMicEnabled' = s.media.isMicEnabled
  /\ senders' = s.media.senders
  /\ originalAudioTrackRef' = s.media.originalAudioTrackRef

\* an RTCRtpSender: the kind of the track it was made for and the stream of
\* its track; NoStream: sender.track is null
Sender(kind, n) == [kind |-> kind, track |-> n]

\* localStream.getTracks().forEach(track => pc.addTrack(track, localStream))
\* on a new connection: the audio track, then the video track
tracksOf(n) == IF n = NoStream THEN <<>> ELSE <<Sender("audio", n), Sender("video", n)>>

\* pc.getSenders(): a closed connection has none
getSenders(m, k) == IF pcs[k].closed THEN <<>> ELSE m.senders[k]

\* senders.find(s => s.track?.kind === "audio" || (!s.track && !enabled)):
\* the index of the sender found, 0 when none is
findAudioSender(ss, en) ==
  LET hits == {i \in 1..Len(ss) : \/ ss[i].track # NoStream /\ ss[i].kind = "audio"
                                  \/ ss[i].track = NoStream /\ ~en}
  IN IF hits = {} THEN 0 ELSE CHOOSE i \in hits : \A j \in hits : i <= j

\* the peer connections of participantsRef.current
Sessions == {participantsRef[Local][q] : q \in Pids} \ {NoPc}

\* setLocalAudioEnabled(enabled), with the localStream of its closure: the
\* media state after it and the connections whose replaceTrack it awaits
setLocalAudioEnabled(m, stream, en) ==
  LET m1 == IF ~en /\ stream # NoStream /\ m.originalAudioTrackRef = NoStream
            THEN [m EXCEPT !.originalAudioTrackRef = stream]
            ELSE m
      audioSender(k) == getSenders(m1, k)[findAudioSender(getSenders(m1, k), en)]
      found == {k \in Sessions : findAudioSender(getSenders(m1, k), en) # 0}
      trackToEnable(k) == IF audioSender(k).track # NoStream THEN audioSender(k).track
                          ELSE m1.originalAudioTrackRef
      changed == IF en THEN {trackToEnable(k) : k \in found} \ {NoStream}
                 ELSE {audioSender(k).track : k \in found} \ {NoStream}
  IN [media |-> [m1 EXCEPT !.trackEnabled =
                   [n \in Streams |-> IF n \in changed THEN en ELSE m1.trackEnabled[n]]],
      promises |-> {k \in found : /\ en
                                  /\ audioSender(k).track = NoStream
                                  /\ m1.originalAudioTrackRef # NoStream}]

AudioToggle(en) == [Msg("audio-toggle", Local, NoId) EXCEPT !.audioEnabled = Some(en)]

\* (mutant) broadcastAudioToggle only sends the message
broadcastAudioToggle_OnlySends(s, stream, en) ==
  [s EXCEPT !.client = sendMessage(s.client, Local, AudioToggle(en))]

\* broadcastAudioToggle(audioEnabled): await setLocalAudioEnabled, then
\* sendMessage.  With no replaceTrack to await the function continues in the
\* task of its call; with one, the message is not sent in that task.
broadcastAudioToggle(s, stream, en) ==
  LET r == setLocalAudioEnabled(s.media, stream, en)
  IN IF r.promises = {}
     THEN [client |-> sendMessage(s.client, Local, AudioToggle(en)), media |-> r.media]
     ELSE [s EXCEPT !.media = r.media]

\* onAudioToggle: (enabled) => broadcastAudioToggleRef.current?.(enabled)
onAudioToggle(s, en) == broadcastAudioToggle(s, localStream, en)

\* toggleMicrophone(), with the stream of its closure
toggleMicrophone(s, stream) ==
  IF stream = NoStream THEN s
  ELSE [s EXCEPT !.media.trackEnabled[stream] = ~@,
                 !.media.isMicEnabled = ~s.media.trackEnabled[stream]]

\* toggleMicrophone() of the hook the page calls with onAudioToggle: the
\* callback gets the state the microphone was set to
toggleAndNotify(s, stream) ==
  IF stream = NoStream THEN s
  ELSE LET s1 == toggleMicrophone(s, stream)
       IN onAudioToggle(s1, s1.media.isMicEnabled)

\* onMuted(muted), with the isMicEnabled and the toggleMicrophone of the
\* render b that made it
onMuted(s, b, muted) ==
  IF muted /\ b.isMicEnabled THEN toggleAndNotify(s, b.localStream)
  ELSE IF ~muted /\ ~b.isMicEnabled THEN toggleAndNotify(s, b.localStream)
  ELSE s

\* pc.addTrack(track, stream): a sender of the kind that has no track and has
\* never sent is reused, else a sender is made
addTrack(ss, kind, n, reuse) ==
  LET free == {i \in 1..Len(ss) : ss[i].track = NoStream /\ ss[i].kind = kind}
  IN IF reuse /\ free # {}
     THEN [ss EXCEPT ![CHOOSE i \in free : \A j \in free : i <= j] = Sender(kind, n)]
     ELSE Append(ss, Sender(kind, n))

\* (mutant) the effect adds the tracks of the new stream and removes none
updateTracks_KeepsOld(ss, n, reuse) ==
  addTrack(addTrack(ss, "audio", n, FALSE), "video", n, FALSE)

\* the body of participantsRef.current.forEach in the effect of [localStream],
\* for the connection k and the new stream n
updateTracks(ss, n, reuse) ==
  LET has(kind) == \E i \in 1..Len(ss) : ss[i] = Sender(kind, n)
      removed == [i \in 1..Len(ss) |->
                    IF ss[i].track # NoStream /\ ss[i].track # n
                    THEN Sender(ss[i].kind, NoStream)
                    ELSE ss[i]]
      audio == IF has("audio") THEN removed ELSE addTrack(removed, "audio", n, reuse)
  IN IF has("audio") /\ has("video") /\ Len(ss) = Len(tracksOf(n)) THEN ss
     ELSE IF has("video") THEN audio
     ELSE addTrack(audio, "video", n, reuse)

\* the senders of a connection have sent once its negotiation is complete,
\* and have not before a remote description is set; the stream is replaced
\* when every connection is in one of the two cases
HasSent(k) == pcs[k].remoteDescription /\ pcs[k].signalingState = "stable"
NeverSent(k) == ~pcs[k].remoteDescription

\* getMediaStream() resolves with a stream when the page holds one: the state
\* is set, and after the render the effect of [localStream] adds the tracks
\* of the stream to the connections of participantsRef.current (on a closed
\* connection addTrack throws)
StreamReplaced(reuse) ==
  /\ localStream # NoStream /\ localStream < NumStreams
  /\ updates[Local] = <<>> /\ ~effectPending[Local]
  /\ \A k \in Sessions : (HasSent(k) /\ ~reuse) \/ (NeverSent(k) /\ reuse)
  /\ localStream' = localStream + 1
  /\ isMicEnabled' = TRUE
  /\ senders' = [k \in PcIds |->
                   IF k \in Sessions /\ ~pcs[k].closed
                   THEN updateTracks(senders[k], localStream + 1, reuse)
                   ELSE senders[k]]
  /\ UNCHANGED <<channelVars, peerVars, trackEnabled, originalAudioTrackRef, bound>>

\* the page gets its first stream: enabled becomes true, the effect of
\* useWebSocket runs and the onmessage of the socket it makes holds the
\* callbacks of this render
AudioMount ==
  /\ localStream = NoStream
  /\ Mount(Local)
  /\ localStream' = 1
  /\ isMicEnabled' = TRUE
  /\ bound' = [bound EXCEPT ![NewSocket(Client)] = [localStream |-> 1, isMicEnabled |-> TRUE]]
  /\ UNCHANGED <<trackEnabled, senders, originalAudioTrackRef>>

\* a frame of the relay is put on the socket
MaxFrames == 1

AudioMessages ==
  {Msg(t, q, NoId) : t \in {"participant-joined", "participant-left"}, q \in Pids \ {Local}}
  \cup {[Msg("offer", q, Local) EXCEPT !.sdp = Some("offer")] : q \in Pids \ {Local}}
  \cup {[Msg("mute", q, NoId) EXCEPT !.muted = Some(m)] : m \in BOOLEAN, q \in Pids \ {Local}}

RelaySends(w, message) ==
  /\ wsOwner[w] # NoId /\ wsState[w] = OPEN /\ Room(wsOwner[w])
  /\ Len(toClient[w]) < MaxFrames
  /\ message.type = "offer" => descriptions < MaxDescriptions
  /\ toClient' = [toClient EXCEPT ![w] = Append(@, message)]
  /\ descriptions' = IF message.type = "offer" THEN descriptions + 1 ELSE descriptions
  /\ UNCHANGED <<enabled, wsRef, shouldReconnectRef, reconnectTimeoutRef, timers, wsOwner,
                 wsState, toServer, participants, participantsRef, effectPending, updates,
                 pcs, candidates, mediaVars>>

\* ws.onmessage with the callbacks it holds: handleSignalingMessage, whose
\* createPeerConnection adds the tracks of the stream of its render, and for
\* mute the onMuted of the page
AudioOnMessage(w) ==
  /\ toClient[w] # <<>>
  /\ wsOwner[w] # NoId /\ wsState[w] = OPEN
  /\ LET message == Head(toClient[w])
         s1 == [Page EXCEPT !.client = handleSignalingMessage(Client, wsOwner[w], message)]
         s2 == [s1 EXCEPT !.media.senders =
                  [k \in PcIds |-> IF pcs[k].owner = NoId /\ s1.client.pcs[k].owner # NoId
                                   THEN tracksOf(bound[w].localStream)
                                   ELSE senders[k]]]
     IN /\ PcsNeeded(wsOwner[w], message) <= Cardinality(FreePcs(Client))
        /\ PageBecomes(IF message.type = "mute"
                       THEN onMuted(s2, bound[w], IF message.muted = Absent THEN TRUE
                                                  ELSE message.muted[1])
                       ELSE s2)
  /\ toClient' = [toClient EXCEPT ![w] = Tail(@)]
  /\ UNCHANGED <<enabled, participants, participantsRef, effectPending, candidates,
                 descriptions, localStream, bound>>

\* the user presses the microphone button: onMicToggle={toggleMicrophone}
MicToggle ==
  /\ localStream # NoStream
  /\ Quiet
  /\ PageBecomes(toggleAndNotify(Page, localStream))
  /\ UNCHANGED <<enabled, toClient, participants, participantsRef, effectPending, candidates,
                 descriptions, localStream, bound>>

\* an event of the channel or of the session manager
Keeps(A) == A /\ UNCHANGED mediaVars

AudioNext ==
  \/ AudioMount
  \/ \E w \in Sockets : Quiet /\ Keeps(WsOnOpen(w))
  \/ \E w \in Sockets : Keeps(RelayReads(w))
  \/ \E w \in Sockets, message \in AudioMessages : RelaySends(w, message)
  \/ \E w \in Sockets : Quiet /\ AudioOnMessage(w)
  \/ MicToggle
  \/ \E reuse \in BOOLEAN : Quiet /\ StreamReplaced(reuse)
  \/ \E k \in PcIds, rollback \in BOOLEAN : Quiet /\ Keeps(PcOpSettles(k, rollback))
  \/ Quiet /\ Keeps(Render(Local))
  \/ Quiet /\ Keeps(SyncRef(Local))

SpecAudio == Init /\ [][AudioNext /\ UNCHANGED relayVars]_vars

(***************************************************************************)
(* The page under the audio-toggle messages of its peer.                   *)
(***************************************************************************)
RemoteAudioMessages ==
  {Msg(t, q, NoId) : t \in {"participant-joined", "participant-left"}, q \in Pids \ {Local}}
  \cup {[Msg("offer", q, Local) EXCEPT !.sdp = Some("offer")] : q \in Pids \ {Local}}
  \cup {[Msg("audio-toggle", q, NoId) EXCEPT !.audioEnabled = Some(v)] :
          v \in BOOLEAN, q \in Pids \ {Local}}

RemoteAudioNext ==
  \/ AudioMount
  \/ \E w \in Sockets : Quiet /\ Keeps(WsOnOpen(w))
  \/ \E w \in Sockets : Keeps(RelayReads(w))
  \/ \E w \in Sockets, message \in RemoteAudioMessages : RelaySends(w, message)
  \/ \E w \in Sockets : Quiet /\ AudioOnMessage(w)
  \/ MicToggle
  \/ \E k \in PcIds, rollback \in BOOLEAN : Quiet /\ Keeps(PcOpSettles(k, rollback))
  \/ Quiet /\ Keeps(Render(Local))
  \/ Quiet /\ Keeps(SyncRef(Local))

SpecRemoteAudio == Init /\ [][RemoteAudioNext /\ UNCHANGED relayVars]_vars


(***************************************************************************)
(* The system: every client with its channel and its peer session manager, *)
(* the relay, and the sockets between them.  The clients send what their   *)
(* code sends; a socket may end at any time, and the relay learns of it    *)
(* later.                                                                  *)
(***************************************************************************)
\* the room of the system
TheRoom == "r1"

\* an event of a client, taken when the relay's handler has returned
ClientEvent(A) == last = Idle /\ A /\ UNCHANGED <<relayVars, mediaVars>>

\* the frames the relay wrote to open sockets reach the client ends that are open
Delivered(sends) ==
  [w \in Sockets |->
     LET mine == SelectSeq(sends, LAMBDA e : e.conn = w /\ e.open)
     IN IF wsState[w] = OPEN
        THEN toClient[w] \o [i \in 1..Len(mine) |-> mine[i].msg]
        ELSE toClient[w]]

\* the relay accepts a socket a client constructed
SysConnection(c) ==
  /\ wsOwner[c] # NoId
  /\ Connection(c, TheRoom)
  /\ UNCHANGED <<member, channelVars, peerVars, mediaVars>>

\* the client end opens once the relay has accepted the socket
SysWsOnOpen(w) ==
  /\ readyState[w] = OPEN
  /\ ClientEvent(WsOnOpen(w))

\* the relay reads the next frame of a socket and handles it
SysOnMessage(c) ==
  /\ toServer[c] # <<>>
  /\ OnMessage(c, Head(toServer[c]))
  /\ toServer' = [toServer EXCEPT ![c] = Tail(@)]
  /\ toClient' = Delivered(last'.sends)
  /\ UNCHANGED <<member, enabled, wsRef, shouldReconnectRef, reconnectTimeoutRef, timers,
                 wsOwner, wsState, peerVars, mediaVars>>

\* the client end of a socket gets the next frame
SysWsOnMessage(w) ==
  /\ toClient[w] # <<>>
  /\ onmessage(w, Head(toClient[w]))
  /\ toClient' = [toClient EXCEPT ![w] = Tail(@)]
  /\ last = Idle
  /\ UNCHANGED <<relayVars, candidates, descriptions, mediaVars>>

\* the client end of a socket closes: after close(), or unexpectedly
SysWsOnClose(w) == ClientEvent(WsOnClose(w))

SysTimerFires(t) == ClientEvent(TimerFires(t))

\* the relay end of a socket whose client end is gone closes, after the
\* frames that were sent on it have been read
SysOnClose(c) ==
  /\ wsOwner[c] # NoId
  /\ wsState[c] \in {CLOSING, CLOSED}
  /\ toServer[c] = <<>>
  /\ OnClose(c)
  /\ toClient' = Delivered(last'.sends)
  /\ UNCHANGED <<member, enabled, wsRef, shouldReconnectRef, reconnectTimeoutRef, timers,
                 wsOwner, wsState, toServer, peerVars, mediaVars>>

\* the clients are named in the order in which they mount
FirstMount(p) == p = "B" => enabled["A"]

SystemNext ==
  \/ \E p \in Pids : FirstMount(p) /\ ClientEvent(Mount(p))
  \/ \E c \in Sockets : SysConnection(c)
  \/ \E w \in Sockets : SysWsOnOpen(w)
  \/ \E c \in Sockets : SysOnMessage(c)
  \/ HandlerReturn /\ UNCHANGED <<member, channelVars, peerVars, mediaVars>>
  \/ \E w \in Sockets : SysWsOnMessage(w)
  \/ \E w \in Sockets : SysWsOnClose(w)
  \/ \E t \in Sockets : SysTimerFires(t)
  \/ \E c \in Sockets : SysOnClose(c)
  \/ \E k \in PcIds, rollback \in BOOLEAN : ClientEvent(PcOpSettles(k, rollback))
  \/ \E p \in Pids : ClientEvent(Render(p))
  \/ \E p \in Pids : ClientEvent(SyncRef(p))

SpecSystem == Init /\ [][SystemNext]_vars


(***************************************************************************)
(* Reconnection: one client and the relay, with channels that are lost     *)
(* and never closed by the client.  The transport of the first            *)
(* MaxFailures sockets may end at any time; a timer that was set fires, a  *)
(* socket that was constructed is accepted and opens, and the relay        *)
(* handles what it is sent.                                                *)
(***************************************************************************)
\* the sockets whose transport may fail are the first MaxFailures ones
MaxFailures == 2

\* the client end of a socket that was not closed by its client closes
TransportFails(w) ==
  /\ w <= MaxFailures
  /\ wsState[w] \in {CONNECTING, OPEN}
  /\ SysWsOnClose(w)

ReconnectNext ==
  \/ ClientEvent(Mount(Local))
  \/ \E c \in Sockets : SysConnection(c)
  \/ \E w \in Sockets : SysWsOnOpen(w)
  \/ \E c \in Sockets : SysOnMessage(c)
  \/ HandlerReturn /\ UNCHANGED <<member, channelVars, peerVars, mediaVars>>
  \/ \E w \in Sockets : SysWsOnMessage(w)
  \/ \E w \in Sockets : TransportFails(w)
  \/ \E t \in Sockets : SysTimerFires(t)
  \/ \E c \in Sockets : SysOnClose(c)

SpecReconnect ==
  /\ Init /\ [][ReconnectNext]_vars
  /\ \A t \in Sockets : WF_vars(SysTimerFires(t))
  /\ \A c \in Sockets : WF_vars(SysConnection(c))
  /\ \A w \in Sockets : WF_vars(SysWsOnOpen(w))
  /\ \A c \in Sockets : WF_vars(SysOnMessage(c))
  /\ WF_vars(HandlerReturn /\ UNCHANGED <<member, channelVars, peerVars, mediaVars>>)


(***************************************************************************)
(* Joining without failure: the system with no socket that ends and no     *)
(* client that disconnects.  Every event that is pending is handled.       *)
(***************************************************************************)
JoinNext ==
  \/ \E p \in Pids : FirstMount(p) /\ ClientEvent(Mount(p))
  \/ \E c \in Sockets : SysConnection(c)
  \/ \E w \in Sockets : SysWsOnOpen(w)
  \/ \E c \in Sockets : SysOnMessage(c)
  \/ HandlerReturn /\ UNCHANGED <<member, channelVars, peerVars, mediaVars>>
  \/ \E w \in Sockets : SysWsOnMessage(w)
  \/ \E k \in PcIds, rollback \in BOOLEAN : ClientEvent(PcOpSettles(k, rollback))
  \/ \E p \in Pids : ClientEvent(Render(p))
  \/ \E p \in Pids : ClientEvent(SyncRef(p))

SpecJoin == Init /\ [][JoinNext]_vars /\ WF_vars(JoinNext)


(***************************************************************************)
(* Rejoining: the system in which a channel may be lost and its client      *)
(* reconnects.  A peer connection that was closed and that no map, ref,     *)
(* updater or pending call holds any more is collected, and its entry is    *)
(* free for the next connection that is made.                               *)
(***************************************************************************)
\* something of the clients still holds peer connection k
Referenced(k) ==
  \/ \E p, q \in Pids : participants[p][q] = k \/ participantsRef[p][q] = k
  \/ \E p \in Pids : \E i \in 1..Len(updates[p]) : updates[p][i].pc = k
  \/ \E j \in PcIds : \E i \in 1..Len(pcs[j].ops) : pcs[j].ops[i].obj = k
  \/ pcs[k].ops # <<>>

\* participant.peerConnection.close() and the delete of its entry leave the
\* RTCPeerConnection to the garbage collector
Collect(k) ==
  /\ pcs[k].owner # NoId /\ pcs[k].closed /\ ~Referenced(k)
  /\ pcs' = [pcs EXCEPT ![k] = NoPcRec]
  /\ UNCHANGED <<channelVars, participants, participantsRef, effectPending, updates,
                 candidates, descriptions>>

RejoinNext ==
  \/ \E p \in Pids : FirstMount(p) /\ ClientEvent(Mount(p))
  \/ \E c \in Sockets : SysConnection(c)
  \/ \E w \in Sockets : SysWsOnOpen(w)
  \/ \E c \in Sockets : SysOnMessage(c)
  \/ HandlerReturn /\ UNCHANGED <<member, channelVars, peerVars, mediaVars>>
  \/ \E w \in Sockets : SysWsOnMessage(w)
  \/ \E w \in Sockets : TransportFails(w)
  \/ \E t \in Sockets : SysTimerFires(t)
  \/ \E c \in Sockets : SysOnClose(c)
  \/ \E k \in PcIds, rollback \in BOOLEAN : ClientEvent(PcOpSettles(k, rollback))
  \/ \E p \in Pids : ClientEvent(Render(p))
  \/ \E p \in Pids : ClientEvent(SyncRef(p))
  \/ \E k \in PcIds : ClientEvent(Collect(k))

SpecRejoin == Init /\ [][RejoinNext]_vars


(***************************************************************************)
(* Properties of the relay.                                                *)
(***************************************************************************)
\* the ids registered in a room (none when the room has no entry)
Registered(rc, roomId) == IF HasRoom(rc, roomId) THEN MapKeySet(rc[roomId]) ELSE {}

\* the participant mapping of the last operation's room before and after it
PreConns == IF HasRoom(last.pre, last.roomId) THEN last.pre[last.roomId] ELSE EmptyMap
PostConns ==
  IF HasRoom(roomConnections, last.roomId) THEN roomConnections[last.roomId] ELSE EmptyMap

SendIdx == 1..Len(last.sends)

Handled(type) == last.op = "message" /\ last.message.type = type

RoutedTypes == {"offer", "answer", "ice-candidate", "mute"}

\* C1: in every room the number of registered participant ids equals the
\* number of connections of that room that are open, have joined and have
\* not left (a connection superseded by a rejoin counts as left).
C1_RegisteredCountIsOpenMembers ==
  \A r \in Rooms :
    Cardinality(Registered(roomConnections, r)) =
      Cardinality({c \in member : readyState[c] = OPEN /\ connRoomId[c] = r})

\* C5: after join{from: J} J is registered on the joining connection, the
\* joiner is sent one participants message listing exactly the other
\* registered ids (never J), and participant-joined{from: J} is sent once to
\* the connection of every other registered id and to nobody else.
C5_JoinRepliesAndNotifies ==
  Handled("join") =>
    LET J == last.message.from
        others == MapKeySet(PostConns) \ {J}
        lists == {i \in SendIdx : last.sends[i].msg.type = "participants"}
        notes == {i \in SendIdx : last.sends[i].msg.type = "participant-joined"}
    IN /\ MapHas(PostConns, J) /\ MapGet(PostConns, J).conn = last.conn
       /\ others = MapKeySet(PreConns) \ {J}
       /\ lists = {1} /\ lists \cup notes = SendIdx
       /\ last.sends[1].conn = last.conn
       /\ LET l == last.sends[1].msg.participants[1]
          IN /\ {l[i] : i \in 1..Len(l)} = others
             /\ Len(l) = Cardinality(others)
       /\ Cardinality(notes) = Cardinality(others)
       /\ \A i \in notes :
            /\ last.sends[i].msg = Msg("participant-joined", J, NoId)
            /\ \E k \in others : last.sends[i].conn = MapGet(PostConns, k).conn
       /\ \A k \in others :
            \E i \in notes : last.sends[i].conn = MapGet(PostConns, k).conn

\* C5 witness: a join into a room that holds another participant
C5_Witness ==
  /\ Handled("join")
  /\ MapKeySet(PreConns) \ {last.message.from} # {}
  /\ Len(last.sends) >= 2

\* C6: an offer, answer, ice-candidate or mute with a target is sent only to
\* the connection registered under the target, with the same type, from, to
\* and payload.
C6_RoutedVerbatimToTarget ==
  (last.op = "message" /\ last.message.type \in RoutedTypes /\ last.message.to # NoId) =>
    \A i \in SendIdx :
      /\ MapHas(PreConns, last.message.to)
      /\ last.sends[i].conn = MapGet(PreConns, last.message.to).conn
      /\ last.sends[i].msg.type = last.message.type
      /\ last.sends[i].msg.from = last.message.from
      /\ last.sends[i].msg.to = last.message.to
      /\ last.sends[i].msg.sdp = last.message.sdp
      /\ last.sends[i].msg.candidate = last.message.candidate
      /\ last.sends[i].msg.muted = last.message.muted

\* C7: a routed message whose target is not registered, or whose socket is
\* not writable when it is routed, causes no send at all and leaves the
\* room's participant mapping as it was.
C7_UndeliverableIsDropped ==
  (/\ last.op = "message" /\ last.message.type \in RoutedTypes /\ last.message.to # NoId
   /\ \/ ~MapHas(PreConns, last.message.to)
      \/ readyState[MapGet(PreConns, last.message.to).conn] # OPEN)
  => /\ last.sends = <<>>
     /\ PostConns = PreConns

\* C8: after kick{from: K, to: C} with C registered, the first send is
\* kicked{from: K} to C's connection, C is no longer registered, and
\* participant-left{from: C} is sent once to the connection of every
\* remaining id and to nobody else.
C8_KickNotifiesRemovesBroadcasts ==
  (Handled("kick") /\ last.message.to # NoId /\ MapHas(PreConns, last.message.to)) =>
    LET C == last.message.to
        remaining == MapKeySet(PostConns)
    IN /\ remaining = MapKeySet(PreConns) \ {C}
       /\ Len(last.sends) = 1 + Cardinality(remaining)
       /\ last.sends[1].conn = MapGet(PreConns, C).conn
       /\ last.sends[1].msg = Msg("kicked", last.message.from, NoId)
       /\ \A i \in 2..Len(last.sends) :
            /\ last.sends[i].msg = Msg("participant-left", C, NoId)
            /\ \E k \in remaining : last.sends[i].conn = MapGet(PostConns, k).conn
       /\ \A k \in remaining :
            \E i \in 2..Len(last.sends) : last.sends[i].conn = MapGet(PostConns, k).conn

\* C8 witness: a kick of a registered participant with somebody remaining
C8_Witness ==
  /\ Handled("kick")
  /\ last.message.to # NoId /\ MapHas(PreConns, last.message.to)
  /\ Len(last.sends) >= 2

C10_NoEmptyRoom ==
  \A r \in DOMAIN roomConnections : roomConnections[r] # EmptyMap

\* the entries of a participant mapping under an id
EntriesOf(connections, id) == {i \in 1..Len(connections) : connections[i].key = id}

\* C11: after a join under an id that was registered already, the room holds
\* exactly one entry for the id, the entry is bound to the connection of this
\* join, and the room holds as many entries as before, one per id.
C11_RejoinReplacesEntry ==
  (Handled("join") /\ MapHas(PreConns, last.message.from)) =>
    LET J == last.message.from
    IN /\ Cardinality(EntriesOf(PostConns, J)) = 1
       /\ MapGet(PostConns, J).conn = last.conn
       /\ Len(PostConns) = Len(PreConns)
       /\ Len(PostConns) = Cardinality(MapKeySet(PostConns))
       /\ MapKeySet(PostConns) = MapKeySet(PreConns)

\* C11 witness: a join under an id that another connection registered
C11_Witness ==
  /\ Handled("join")
  /\ MapHas(PreConns, last.message.from)
  /\ MapGet(PreConns, last.message.from).conn # last.conn
  /\ Len(PreConns) = 2

\* C12: after audio-toggle{from: P, audioEnabled} the relay has sent, once to
\* the connection of every id other than P registered in the room of the
\* sending connection, audio-toggle with the same from and audioEnabled; it
\* has sent nothing under P's entry, nothing to a connection registered in
\* another room, and nothing else.
C12_AudioToggleBroadcast ==
  Handled("audio-toggle") =>
    LET P == last.message.from
        others == MapKeySet(PreConns) \ {P}
    IN /\ PostConns = PreConns
       /\ Len(last.sends) = Cardinality(others)
       /\ \A i \in SendIdx :
            /\ last.sends[i].msg.type = "audio-toggle"
            /\ last.sends[i].msg.from = P
            /\ last.sends[i].msg.audioEnabled = last.message.audioEnabled
            /\ \E k \in others : last.sends[i].conn = MapGet(PreConns, k).conn
            /\ \A r \in DOMAIN last.pre : r # last.roomId =>
                 \A k \in MapKeySet(last.pre[r]) :
                   MapGet(last.pre[r], k).conn # last.sends[i].conn
       /\ \A k \in others :
            Cardinality({i \in SendIdx : last.sends[i].conn = MapGet(PreConns, k).conn}) >= 1

\* C12 witness: a toggle of a registered participant while another one is
\* registered in its room and a third one in another room
C12_Witness ==
  /\ Handled("audio-toggle")
  /\ MapHas(PreConns, last.message.from)
  /\ Len(last.sends) = 1
  /\ \E r \in DOMAIN last.pre : r # last.roomId /\ last.pre[r] # EmptyMap

\* C13: a frame that does not parse is answered with one error message, sent
\* to the connection it came from and to no other; the connection stays
\* open and the registry is what it was.
C13_UnparsableAnsweredWithError ==
  last.op = "unparsable" =>
    /\ Len(last.sends) = 1
    /\ last.sends[1].conn = last.conn
    /\ last.sends[1].msg.type = "error"
    /\ last.sends[1].msg.message # Absent
    /\ readyState[last.conn] = OPEN
    /\ roomConnections = last.pre

\* C13 witness: a frame that does not parse arrives on a connection of a
\* room that has no entry, while another room holds a participant
C13_Witness ==
  /\ last.op = "unparsable"
  /\ ~HasRoom(last.pre, last.roomId)
  /\ \E r \in DOMAIN last.pre : last.pre[r] # EmptyMap

(***************************************************************************)
(* Properties of the clients.                                              *)
(***************************************************************************)
\* the sockets of a client that are connecting or open
LiveSockets(p) == {w \in Sockets : wsOwner[w] = p /\ wsState[w] \in {CONNECTING, OPEN}}

\* C4: at every moment a signaling channel instance has at most one socket
\* that is connecting or open.
C4_AtMostOneLiveChannel ==
  \A p \in Pids : Cardinality(LiveSockets(p)) <= 1

Increasing(q) == \A i, j \in 1..Len(q) : i < j => q[i] < q[j]

\* C3: a candidate is applied to a peer connection only when its remote
\* description is set, and the candidates applied to a peer connection are
\* applied in the order of their arrival, those that arrive during the flush
\* of the queue included.
C3_CandidatesAfterDescriptionInOrder ==
  \A k \in PcIds :
    pcs[k].applied # <<>> => pcs[k].remoteDescription /\ Increasing(pcs[k].applied)

\* two peer connections that are not closed and belong to the same pair of
\* participants, in the same or in opposite directions
SamePair(j, k) ==
  /\ j # k
  /\ pcs[j].owner # NoId /\ pcs[k].owner # NoId
  /\ ~pcs[j].closed /\ ~pcs[k].closed
  /\ {pcs[j].owner, pcs[j].peer} = {pcs[k].owner, pcs[k].peer}

\* C2: between two participants at most one offer is sent, in either
\* direction, while their sessions last: of the peer connections of a pair
\* that are not closed, at most one has sent an offer.
C2_AtMostOneOfferPerPair ==
  \A j, k \in PcIds : SamePair(j, k) => ~(pcs[j].offered /\ pcs[k].offered)
\* the close of socket w has set a reconnect timer that has not fired
ReconnectScheduled(w) == w \in timers

\* the relay has just handled a join of the owner of socket w on a socket
\* constructed after w: the owner is registered on it, and the reply, a
\* participants message, was taken by the socket and is on its way to the
\* client
Rejoined(w) ==
  /\ Handled("join")
  /\ last.conn > w
  /\ wsOwner[last.conn] = wsOwner[w]
  /\ last.message.from = wsOwner[w]
  /\ MapHas(PostConns, wsOwner[w])
  /\ MapGet(PostConns, wsOwner[w]).conn = last.conn
  /\ last.sends # <<>>
  /\ last.sends[1].conn = last.conn
  /\ last.sends[1].msg.type = "participants"
  /\ last.sends[1].open
  /\ \A i \in SendIdx : last.sends[i].msg.type # "error"
  /\ toClient[last.conn] # <<>>
  /\ toClient[last.conn][Len(toClient[last.conn])].type = "participants"

\* C14: when a channel closes unexpectedly while reconnection is enabled, a
\* new channel is eventually opened, join is sent on it, and the relay
\* registers the participant on it and replies with participants.
C14_UnexpectedCloseLeadsToRejoin ==
  \A w \in Sockets : ReconnectScheduled(w) ~> Rejoined(w)

\* C14 witness: a rejoin that replaces the entry of the lost channel, which
\* the relay has not yet seen close
C14_Witness ==
  \E w \in Sockets :
    /\ Rejoined(w)
    /\ wsState[w] = CLOSED
    /\ MapHas(PreConns, wsOwner[w])
    /\ MapGet(PreConns, wsOwner[w]).conn = w

\* the frames a step makes the client write on socket w
Written(w) == SubSeq(toServer'[w], Len(toServer[w]) + 1, Len(toServer'[w]))

\* a step taken after disconnect() constructs no socket and sends no join
QuietAfterDisconnect ==
  ~shouldReconnectRef[Local] =>
    /\ wsOwner' = wsOwner
    /\ \A w \in Sockets : \A i \in 1..Len(Written(w)) : Written(w)[i].type # "join"

\* the call of disconnect() on an open channel sends leave on it and closes it
LeaveBeforeClose ==
  (/\ shouldReconnectRef[Local] /\ ~shouldReconnectRef'[Local]
   /\ wsRef[Local] # NoSocket /\ wsState[wsRef[Local]] = OPEN) =>
    /\ Written(wsRef[Local]) = <<Msg("leave", Local, NoId)>>
    /\ wsState'[wsRef[Local]] = CLOSING

\* C15: from the call of disconnect() on, no step constructs a socket and
\* no step sends a join; and the call itself, when the channel is open,
\* sends leave on it and closes it.
C15_DisconnectIsFinal == [][QuietAfterDisconnect /\ LeaveBeforeClose]_vars

\* two peer connections of one participant for the same remote id, neither
\* of them closed
SamePeer(j, k) ==
  /\ j # k
  /\ pcs[j].owner # NoId /\ pcs[j].owner = pcs[k].owner
  /\ pcs[j].peer = pcs[k].peer
  /\ ~pcs[j].closed /\ ~pcs[k].closed

\* C16: a participant never holds two peer connections for the same remote
\* id that are both not closed.
C16_AtMostOnePcPerPeer ==
  \A j, k \in PcIds : ~SamePeer(j, k)

\* the step in which the client end of socket w gets a message of a type
Gets(w, type) ==
  /\ wsState[w] = OPEN /\ wsState'[w] = OPEN
  /\ toClient[w] # <<>>
  /\ Head(toClient[w]).type = type
  /\ toClient'[w] = Tail(toClient[w])

\* the step creates a peer connection of p for peerId and calls createOffer on it
CreatesAndOffers(p, peerId) ==
  \E k \in PcIds :
    /\ pcs[k].owner = NoId
    /\ pcs'[k].owner = p /\ pcs'[k].peer = peerId
    /\ pcs'[k].ops # <<>> /\ pcs'[k].ops[1].op = "createOffer"

\* C17: a participant that gets a participants message creates, for every
\* id the message lists, a peer connection and starts the offer on it, on
\* its first join and on every later one.
C17_ParticipantsCreatesAndOffers ==
  [][\A w \in Sockets :
       Gets(w, "participants") =>
         LET l == Head(toClient[w]).participants[1]
         IN \A i \in 1..Len(l) : CreatesAndOffers(wsOwner[w], l[i])]_vars

\* a call of an operation is pending on a peer connection
HasOp(pc, op, arg) == \E i \in 1..Len(pc.ops) : pc.ops[i].op = op /\ pc.ops[i].arg = arg

\* the step calls the operation on peer connection k
Calls(k, op, arg) == HasOp(pcs'[k], op, arg) /\ ~HasOp(pcs[k], op, arg)

\* handling participant-joined{from: P} creates a peer connection for P with
\* no call on it, touches no other peer connection and sends nothing
JoinedOnlyCreates ==
  \A w \in Sockets :
    Gets(w, "participant-joined") =>
      /\ \E k \in PcIds :
           /\ pcs[k].owner = NoId
           /\ pcs'[k] = [NoPcRec EXCEPT !.owner = wsOwner[w],
                                        !.peer = Head(toClient[w]).from]
           /\ \A j \in PcIds \ {k} : pcs'[j] = pcs[j]
      /\ toServer' = toServer

\* an offer is started only on the peer connection created while a
\* participants message is handled, and an offer is sent only for a peer
\* connection whose offer was started
OffersStartWithParticipants ==
  /\ \A k \in PcIds :
       Calls(k, "createOffer", "none") =>
         /\ pcs[k].owner = NoId
         /\ \E w \in Sockets : Gets(w, "participants") /\ wsOwner[w] = pcs'[k].owner
  /\ \A k \in PcIds :
       Calls(k, "setLocalDescription", "offer") =>
         pcs[k].ops # <<>> /\ Head(pcs[k].ops).op = "createOffer"
  /\ \A w \in Sockets : \A i \in 1..Len(Written(w)) :
       Written(w)[i].type = "offer" =>
         \E k \in PcIds :
           /\ pcs[k].owner = wsOwner[w] /\ pcs[k].peer = Written(w)[i].to
           /\ pcs[k].ops # <<>>
           /\ Head(pcs[k].ops).op = "setLocalDescription"
           /\ Head(pcs[k].ops).arg = "offer"

\* C18: handling participant-joined{from: P} creates a peer connection for P
\* and sends nothing; an offer is only ever started, and sent, on a peer
\* connection created for an id that a participants message listed.
C18_JoinedNeverOffers == [][JoinedOnlyCreates /\ OffersStartWithParticipants]_vars

\* C18 witness: a peer connection just created on participant-joined: no
\* call was made on it, and its entry waits for the next render
C18_Witness ==
  \E k \in PcIds :
    /\ pcs[k].owner # NoId /\ ~pcs[k].closed
    /\ pcs[k].ops = <<>> /\ ~pcs[k].remoteDescription /\ ~pcs[k].offered
    /\ pcs[k].signalingState = "stable"
    /\ updates[pcs[k].owner] # <<>>
    /\ updates[pcs[k].owner][Len(updates[pcs[k].owner])] = UpdSet(pcs[k].peer, k)

\* the relay has just handled the join of J in a room that holds E: it sent
\* participants listing E to J and participant-joined{from: J} to E
JoinedRoomOf(J, E) ==
  /\ Handled("join") /\ last.message.from = J
  /\ MapHas(PreConns, E) /\ ~MapHas(PreConns, J)

JoinAnnounced(J, E) ==
  /\ last.sends[1].conn = last.conn
  /\ last.sends[1].msg.type = "participants"
  /\ last.sends[1].msg.participants = Some(<<E>>)
  /\ \E i \in SendIdx :
       /\ last.sends[i].conn = MapGet(PreConns, E).conn
       /\ last.sends[i].msg = Msg("participant-joined", J, NoId)

\* a received offer is applied as remote description on a peer connection
\* for its sender; an answer is sent when setLocalDescription(answer) settles
\* on a peer connection that holds a remote offer, to that connection's peer
OfferAppliedAndAnswered ==
  /\ \A w \in Sockets :
       Gets(w, "offer") =>
         \E k \in PcIds :
           /\ pcs'[k].owner = wsOwner[w] /\ pcs'[k].peer = Head(toClient[w]).from
           /\ Calls(k, "setRemoteDescription", "offer")
  /\ \A w \in Sockets : \A i \in 1..Len(Written(w)) :
       Written(w)[i].type = "answer" =>
         /\ Len(Written(w)) = 1
         /\ Written(w)[i].from = wsOwner[w]
         /\ \E k \in PcIds :
              /\ pcs[k].owner = wsOwner[w] /\ pcs[k].peer = Written(w)[i].to
              /\ pcs[k].signalingState = "have-remote-offer"
              /\ pcs'[k].signalingState = "stable"
              /\ Head(pcs[k].ops).op = "setLocalDescription"

\* J has sent its offer to E, and E has applied it as remote description and
\* has set and sent its answer
Answered(J, E) ==
  /\ \E k \in PcIds : pcs[k].owner = J /\ pcs[k].peer = E /\ pcs[k].offered
  /\ \E k \in PcIds :
       /\ pcs[k].owner = E /\ pcs[k].peer = J /\ ~pcs[k].offered
       /\ pcs[k].remoteDescription /\ pcs[k].signalingState = "stable"

\* C19: when B joins a room that holds A and nothing fails, the relay sends
\* participants [A] to B and participant-joined{from: B} to A; a received
\* offer is applied as remote description and answered once, to its sender;
\* and eventually B has sent its offer and A has applied and answered it.
C19_JoinLeadsToOfferAndAnswer ==
  /\ [](JoinedRoomOf("B", "A") => JoinAnnounced("B", "A"))
  /\ [][OfferAppliedAndAnswered]_vars
  /\ (JoinedRoomOf("B", "A") ~> Answered("B", "A"))

\* C19 witness: B joined the room of A, B's offer was answered by A and the
\* relay has just routed the answer to B
C19_Witness ==
  /\ MapKeys(PostConns) = <<"A", "B">>
  /\ Answered("B", "A")
  /\ Handled("answer")
  /\ last.message.from = "A" /\ last.message.to = "B"
  /\ Len(last.sends) = 1 /\ last.sends[1].open

\* an ice-candidate from B is delivered to A
CandidateArrives == candidates' = candidates + 1

\* a candidate that arrives while the peer connection A holds for B has no
\* remote description is queued by an updater and not applied
QueuedBeforeDescription ==
  LET known == participantsRef[Local]["B"]
  IN (CandidateArrives /\ known # NoPc /\ ~pcs[known].remoteDescription) =>
       /\ updates'[Local] = Append(updates[Local], UpdQueue("B", candidates'))
       /\ pcs'[known].ops = pcs[known].ops

\* nothing of client p is pending: no call on a peer connection, no updater,
\* no effect
AtRest(p) ==
  /\ updates[p] = <<>> /\ ~effectPending[p]
  /\ \A k \in PcIds : pcs[k].owner = p => pcs[k].ops = <<>>

\* when the work of A is done, the queue of a participant whose peer
\* connection has its remote description is empty
QueueFlushed ==
  \A k \in PcIds :
    (/\ pcs[k].owner = Local /\ ~pcs[k].closed
     /\ participants[Local][pcs[k].peer] = k
     /\ pcs[k].remoteDescription /\ AtRest(Local))
    => pcs[k].pendingCandidates \in {Absent, Some(<<>>)}

\* the candidates a render removes from the queue of participant k: those in
\* the queue and those the updaters of the batch push
Removed(k) ==
  {c \in 1..MaxCands :
     \/ /\ pcs[k].pendingCandidates # Absent
        /\ \E i \in 1..Len(pcs[k].pendingCandidates[1]) : pcs[k].pendingCandidates[1][i] = c
     \/ \E i \in 1..Len(updates[Local]) :
          /\ updates[Local][i].kind = "queue" /\ updates[Local][i].peer = pcs[k].peer
          /\ updates[Local][i].candidate = c}

\* a render that leaves the queue of a participant empty removes only
\* candidates that were applied to a peer connection for that participant
ClearedWereApplied ==
  \A k \in PcIds :
    (/\ updates[Local] # <<>> /\ updates'[Local] = <<>>
     /\ pcs[k].owner = Local /\ participants'[Local][pcs[k].peer] = k
     /\ pcs'[k].pendingCandidates = Some(<<>>))
    => \A c \in Removed(k) :
         \E j \in PcIds :
           /\ pcs'[j].owner = Local /\ pcs'[j].peer = pcs[k].peer
           /\ \E i \in 1..Len(pcs'[j].applied) : pcs'[j].applied[i] = c

\* C20: an ice-candidate from B that arrives at A before A has applied B's
\* remote description is appended to B's queue; once A has applied the
\* remote description, from an offer or an answer, the queued candidates are
\* applied and the queue is empty.
C20_QueuedCandidatesFlushed ==
  /\ [][QueuedBeforeDescription]_vars
  /\ [][ClearedWereApplied]_vars
  /\ []QueueFlushed

\* C24: on every socket a signaling channel constructs, join{from:
\* participantId} is written in the step in which the socket opens, and
\* nothing is written on a socket that has not opened.
C24_JoinIsFirstFrame ==
  [][\A w \in Sockets :
       /\ (wsState[w] = CONNECTING /\ wsState'[w] = OPEN)
            => Written(w) = <<Msg("join", wsOwner[w], NoId)>>
       /\ (Written(w) # <<>> /\ wsState[w] # OPEN)
            => (wsState[w] = CONNECTING /\ wsState'[w] = OPEN)]_vars

\* C24 witness: a client whose first socket was lost has sent an offer on
\* the socket it opened next
C24_Witness ==
  \E v, w \in Sockets :
    /\ v # w /\ wsOwner[v] = wsOwner[w] /\ wsOwner[w] # NoId
    /\ wsState[v] = CLOSED /\ wsState[w] = OPEN
    /\ toServer[w] # <<>> /\ toServer[w][Len(toServer[w])].type = "offer"

\* C25: the handling of an offer, an answer or an ice-candidate from B does
\* not begin while an asynchronous step that an earlier message from B
\* started (set remote description, create or set the answer, flush of the
\* queue, add a candidate) has not settled.
C25_OneMessagePerPeerAtATime ==
  [][(candidates' # candidates \/ descriptions' # descriptions) =>
       \A k \in PcIds : \A i \in 1..Len(pcs[k].ops) :
         (pcs[k].owner = Local /\ pcs[k].peer = "B") =>
           pcs[k].ops[i].then \notin {"remoteOfferSet", "remoteAnswerSet", "flush",
                                     "answerCreated", "answerSet", "candidateAdded"}]_vars

\* C26: when the handler of an offer or an answer looks up the session of the
\* sender, it finds what the messages handled before have left: the map
\* with every updater that was passed to setParticipants applied.
C26_LookupSeesHandledMessages ==
  [][\A w \in Sockets :
       (Gets(w, "offer") \/ Gets(w, "answer")) =>
         LET p == wsOwner[w]
             from == Head(toClient[w]).from
         IN from \in Pids =>
              participantsRef[p][from] = applyUpdates(updates[p], participants[p], pcs).map[from]]_vars

\* C27: when participant-left{from: B} is handled, the peer connection of the
\* session A holds for B is closed in that step, and no candidate is applied
\* to a peer connection that is closed.
C27_TeardownClosesAndStopsFlush ==
  [][/\ \A k \in PcIds :
          pcs[k].closed => pcs'[k].closed /\ pcs'[k].applied = pcs[k].applied
     /\ LET before == applyUpdates(updates[Local], participants[Local], pcs).map
             after == applyUpdates(updates'[Local], participants'[Local], pcs').map
         IN (before["B"] # NoPc /\ after["B"] = NoPc) => pcs'[before["B"]].closed]_vars

\* C28: after the local participant has disconnected or the component has
\* unmounted, every peer connection it created is closed.
C28_TeardownClosesEveryPc ==
  ~shouldReconnectRef[Local] =>
    \A k \in PcIds : pcs[k].owner = Local => pcs[k].closed

\* the session of peer connection k has applied a remote offer and set its
\* answer: it is on the answering side
AnswerSent(k) ==
  /\ pcs[k].owner # NoId /\ ~pcs[k].closed
  /\ pcs[k].remoteDescription /\ ~pcs[k].offered /\ pcs[k].signalingState = "stable"

\* C29: a session that has sent an offer is never given an offer to answer,
\* and a session that has sent an answer never sends an offer and is never
\* given an answer to apply.
C29_OfferingOrAnsweringSide ==
  [][\A k \in PcIds :
       /\ pcs[k].offered => ~Calls(k, "setRemoteDescription", "offer")
       /\ AnswerSent(k) =>
            /\ ~pcs'[k].offered
            /\ ~Calls(k, "setRemoteDescription", "answer")]_vars

\* C30: at most one reconnect timer of a signaling channel instance is
\* pending, and none is pending once disconnect() has been called.
C30_OneTimerNoneAfterDisconnect ==
  /\ Cardinality({t \in timers : wsOwner[t] = Local}) <= 1
  /\ ~shouldReconnectRef[Local] => timers = {}


\* the frames of a type the step writes on socket w
WrittenOf(w, type) == SelectSeq(Written(w), LAMBDA m : m.type = type)

\* C23: after a participant handles mute{muted: m} its microphone (the audio
\* track of its stream, and the isMicEnabled state) is enabled exactly when m
\* is false, whatever it was before; when handling the message changes the
\* microphone, one audio-toggle with the new state is sent
C23_MuteSetsMicrophone ==
  [][\A w \in Sockets :
       Gets(w, "mute") =>
         LET m == Head(toClient[w]).muted[1]
         IN /\ trackEnabled'[localStream] = ~m
            /\ isMicEnabled' = ~m
            /\ trackEnabled'[localStream] # trackEnabled[localStream] =>
                 WrittenOf(w, "audio-toggle") = <<AudioToggle(~m)>>]_vars

\* the tracks of the audio senders of connection k that have a track
AudioTracksOf(m, k) ==
  {getSenders(m, k)[i].track :
     i \in {j \in 1..Len(getSenders(m, k)) : getSenders(m, k)[j].kind = "audio"}} \ {NoStream}

\* C21: setting local audio enabled to v twice leaves the audio senders of
\* every session (their tracks and the enabled flags of the tracks) as
\* setting it once does, and after it the track of every audio sender of
\* every session is enabled exactly when v is true
C21_SetAudioIdempotent ==
  \A v \in BOOLEAN :
    LET once == setLocalAudioEnabled(Media, localStream, v).media
        twice == setLocalAudioEnabled(once, localStream, v).media
    IN /\ twice.senders = once.senders /\ twice.trackEnabled = once.trackEnabled
       /\ \A k \in Sessions : \A n \in AudioTracksOf(once, k) : once.trackEnabled[n] = v

\* the channel of Local is open
ChannelOpen == wsRef[Local] # NoSocket /\ wsState[wsRef[Local]] = OPEN

\* C22: a step that sends audio-toggle{from, audioEnabled: v} sends it once,
\* from Local, and leaves the media state as setLocalAudioEnabled(v) leaves
\* it, with no replaceTrack of the toggle pending (no toggle leaves one
\* pending); a toggle of the microphone on an open channel sends the message
\* whether or not there is a session
C22_BroadcastAfterTrackOperations ==
  /\ [](\A v \in BOOLEAN : setLocalAudioEnabled(Media, localStream, v).promises = {})
  /\ [][\A w \in Sockets :
          WrittenOf(w, "audio-toggle") # <<>> =>
            \E v \in BOOLEAN :
              /\ WrittenOf(w, "audio-toggle") = <<AudioToggle(v)>>
              /\ setLocalAudioEnabled(Media, localStream, v)' =
                   [media |-> Media', promises |-> {}]]_vars
  /\ [][(isMicEnabled' # isMicEnabled /\ localStream' = localStream /\ ChannelOpen) =>
          WrittenOf(wsRef[Local], "audio-toggle") = <<AudioToggle(isMicEnabled')>>]_vars

\* audio-toggle{audioEnabled: false} was the last frame sent, a session with
\* an audio track exists and its track is disabled
C22_Witness ==
  /\ \E w \in Sockets :
       toServer[w] # <<>> /\ toServer[w][Len(toServer[w])] = AudioToggle(FALSE)
  /\ \E k \in Sessions :
       /\ ~pcs[k].closed
       /\ AudioTracksOf(Media, k) # {}
       /\ \A n \in AudioTracksOf(Media, k) : ~trackEnabled[n]
  /\ originalAudioTrackRef # NoStream

\* C37: the close of a connection that is not the one registered under its
\* participant id (the participant rejoined on another connection) removes
\* nothing from the registry and sends no participant-left
C37_SupersededCloseKeepsEntry ==
  (/\ last.op = "close"
   /\ last.message.from # NoId
   /\ MapHas(PreConns, last.message.from)
   /\ MapGet(PreConns, last.message.from).conn # last.conn) =>
    /\ PostConns = PreConns
    /\ last.sends = <<>>

\* C40: an id that an operation removes from the registry of a room is
\* removed by a leave under that id sent on the connection registered for
\* it, by the close of that connection, or by a kick addressed to the id
C40_RemovedOnlyByOwnLeaveCloseOrKick ==
  \A P \in MapKeySet(PreConns) \ MapKeySet(PostConns) :
    LET own == MapGet(PreConns, P).conn
    IN \/ Handled("leave") /\ last.message.from = P /\ last.conn = own
       \/ last.op = "close" /\ last.conn = own
       \/ Handled("kick") /\ last.message.to = P

\* C36: participant-left{from: P} is sent only by an operation that removes
\* P from the registry of the room (a departure of P), and then exactly once
\* to the connection of every id that remains registered
C36_OneParticipantLeftPerDeparture ==
  \A i \in SendIdx :
    last.sends[i].msg.type = "participant-left" =>
      LET P == last.sends[i].msg.from
      IN /\ P \in MapKeySet(PreConns) \ MapKeySet(PostConns)
         /\ \A k \in MapKeySet(PostConns) :
              Cardinality({j \in SendIdx :
                             /\ last.sends[j].msg = Msg("participant-left", P, NoId)
                             /\ last.sends[j].conn = MapGet(PostConns, k).conn}) = 1

\* C35: handling audio-toggle{from: P, audioEnabled} touches no peer
\* connection, sender or track and sends nothing, and once its updater has
\* run the sessions are those there were, the session of P with the flag of
\* the message and every other unchanged (none is created when P has none)
C35_AudioToggleOnlySetsFlag ==
  [][\A w \in Sockets :
       Gets(w, "audio-toggle") =>
         LET p == wsOwner[w]
             message == Head(toClient[w])
             before == applyUpdates(updates[p], participants[p], pcs)
             after == applyUpdates(updates'[p], participants'[p], pcs')
         IN /\ pcs' = pcs
            /\ senders' = senders /\ trackEnabled' = trackEnabled
            /\ isMicEnabled' = isMicEnabled
            /\ originalAudioTrackRef' = originalAudioTrackRef
            /\ toServer' = toServer
            /\ after.map = before.map
            /\ \A k \in PcIds :
                 after.pcs[k] = IF k = before.map[message.from]
                                THEN [before.pcs[k] EXCEPT !.audioEnabled = message.audioEnabled]
                                ELSE before.pcs[k]]_vars

\* the session of B, with its senders and open, has the flag audio-toggle{false} set
C35_Witness ==
  \E k \in PcIds :
    /\ participants[Local]["B"] = k
    /\ pcs[k].owner = Local /\ ~pcs[k].closed
    /\ senders[k] # <<>>
    /\ pcs[k].audioEnabled = Some(FALSE)

\* the step in which peer connection k rejects a candidate of the flush
FlushRejects(k) ==
  /\ pcs[k].ops # <<>>
  /\ Head(pcs[k].ops).then = "flush"
  /\ pcs'[k].failed # pcs[k].failed

\* C31: when a candidate of the flush is rejected the session stays (its
\* connection is not closed, the map keeps it), the next candidate of the
\* queue, if there is one, is the next to be applied, and after the last one
\* the queue of the session is cleared
C31_FlushSkipsFailedCandidate ==
  [][\A k \in PcIds :
       FlushRejects(k) =>
         LET o == Head(pcs[k].ops)
             arr == IF o.frozen = Absent THEN pcs[o.obj].pendingCandidates[1] ELSE o.frozen[1]
             p == pcs[k].owner
             before == applyUpdates(updates[p], participants[p], pcs)
             after == applyUpdates(updates'[p], participants'[p], pcs')
             cur == after.map[pcs[k].peer]
         IN /\ ~pcs'[k].closed
            /\ after.map = before.map
            /\ pcs'[k].applied = pcs[k].applied
            /\ IF o.idx < Len(arr)
               THEN /\ pcs'[k].ops = Append(Tail(pcs[k].ops),
                                            FlushOp(arr[o.idx + 1], o.obj, o.idx + 1, o.frozen, o.next))
                    /\ updates' = updates
               ELSE cur # NoPc => after.pcs[cur].pendingCandidates = Some(<<>>)]_vars

\* a connection rejected the first candidate of a flush and applied the second
C31_Witness ==
  \E k \in PcIds :
    /\ ~pcs[k].closed
    /\ Len(pcs[k].failed) = 1
    /\ pcs[k].failed[1].then = "flush" /\ pcs[k].failed[1].idx = 1
    /\ pcs[k].applied = <<pcs[k].failed[1].arg + 1>>

\* peer connection k rejects the description or the candidate it was given
Rejects(k) ==
  /\ pcs[k].ops # <<>>
  /\ Head(pcs[k].ops).op \in {"setRemoteDescription", "setLocalDescription", "addIceCandidate"}
  /\ pcs'[k].failed = Append(pcs[k].failed, Head(pcs[k].ops))

\* the step in which k rejects leaves the session as it is, the other
\* peer connections and the channel untouched
FailureStaysInSession ==
  \A k \in PcIds :
    Rejects(k) =>
      LET p == pcs[k].owner
          before == applyUpdates(updates[p], participants[p], pcs)
          after == applyUpdates(updates'[p], participants'[p], pcs')
      IN /\ [pcs'[k] EXCEPT !.ops = <<>>, !.failed = <<>>]
              = [pcs[k] EXCEPT !.ops = <<>>, !.failed = <<>>]
         /\ ~pcs'[k].closed
         /\ after.map = before.map
         /\ \A j \in PcIds \ {k} : pcs'[j] = pcs[j]
         /\ wsRef' = wsRef /\ wsState' = wsState /\ wsOwner' = wsOwner
         /\ shouldReconnectRef' = shouldReconnectRef /\ timers' = timers
         /\ toServer' = toServer

\* after a rejection a candidate that arrives is handled as before: applied
\* to the peer connection the handler sees when that has a remote
\* description, queued when it has none
DeliveredAfterFailure ==
  LET known == participantsRef[Local]["B"]
  IN (/\ CandidateArrives /\ known # NoPc /\ ~pcs[known].closed
      /\ \E k \in PcIds : pcs[k].failed # <<>>) =>
       IF pcs[known].remoteDescription
       THEN Calls(known, "addIceCandidate", candidates')
       ELSE updates'[Local] = Append(updates[Local], UpdQueue("B", candidates'))

\* C32: when a peer connection rejects a description or a candidate, the
\* session stays what it was (not closed, still in the map), no other peer
\* connection changes, the channel stays as it is and nothing is sent; the
\* messages that arrive afterwards are handled
C32_FailureStaysInSession == [][FailureStaysInSession /\ DeliveredAfterFailure]_vars

C32_Witness ==
  \E k \in PcIds :
    /\ pcs[k].failed # <<>> /\ pcs[k].failed[1].op = "setRemoteDescription"
    /\ ~pcs[k].closed /\ participants[Local]["B"] = k
    /\ wsRef[Local] # NoSocket /\ wsState[wsRef[Local]] = OPEN
    /\ \E i \in 1..Len(pcs[k].applied) : pcs[k].applied[i] = candidates
    /\ candidates > 1

\* connection k has an audio sender whose track is null
HasTracklessAudioSender(k) ==
  \E i \in 1..Len(getSenders(Media, k)) : getSenders(Media, k)[i] = Sender("audio", NoStream)

\* C34: when an original audio track is retained, setLocalAudioEnabled(true)
\* calls replaceTrack on every session that has an audio sender without a
\* track, and enables the retained track
C34_UnmuteReplacesTracklessSender ==
  LET r == setLocalAudioEnabled(Media, localStream, TRUE)
  IN \A k \in Sessions :
       (HasTracklessAudioSender(k) /\ originalAudioTrackRef # NoStream) =>
         /\ k \in r.promises
         /\ r.media.trackEnabled[originalAudioTrackRef]

\* the tracks attached to the senders of connection k
AttachedTo(ss) == {ss[i] : i \in {j \in 1..Len(ss) : ss[j].track # NoStream}}

\* the tracks of stream n
TrackIds(n) == {Sender("audio", n), Sender("video", n)}

HoldsSession == \E k \in PcIds : pcs[k].owner = Local /\ pcs[k].peer = "B" /\ ~pcs[k].closed

\* a candidate from B that arrives while A holds a session for B is given to
\* addIceCandidate on a connection for B or to the updater that queues it
CandidateKept ==
  (CandidateArrives /\ HoldsSession) =>
    \/ \E k \in PcIds : pcs[k].peer = "B" /\ Calls(k, "addIceCandidate", candidates')
    \/ updates'[Local] = Append(updates[Local], UpdQueue("B", candidates'))

\* the number of times candidate c was applied to connection k
TimesApplied(k, c) == Cardinality({i \in 1..Len(pcs[k].applied) : pcs[k].applied[i] = c})

\* when the work of A is done, no candidate was applied twice to the
\* connection of a session, and every candidate the session ever held in its
\* queue was applied to it
AppliedOnceAtRest ==
  \A k \in PcIds :
    (/\ AtRest(Local) /\ pcs[k].owner = Local /\ ~pcs[k].closed
     /\ participants[Local][pcs[k].peer] = k /\ pcs[k].remoteDescription) =>
      /\ \A c \in 1..candidates : TimesApplied(k, c) <= 1
      /\ pcs[k].pendingCandidates # Absent =>
           \A i \in 1..Len(pcs[k].pendingCandidates[1]) :
             TimesApplied(k, pcs[k].pendingCandidates[1][i]) = 1

\* C39: every candidate delivered while a session for its sender exists is
\* kept (applied or queued), and when nothing is pending any more each
\* candidate of the session was applied to its connection once, none twice
\* and none left in the queue
C39_EveryCandidateAppliedOnce == [][CandidateKept]_vars /\ []AppliedOnceAtRest

\* nothing is on its way or pending anywhere: no frame, no timer, no handler
\* of the relay, no call, updater or effect of a client, no socket that is
\* connecting or closing, and the relay has seen every close
Quiescent ==
  /\ last = Idle /\ timers = {}
  /\ \A w \in Sockets :
       /\ toServer[w] = <<>> /\ toClient[w] = <<>>
       /\ wsState[w] \notin {CONNECTING, CLOSING}
       /\ (wsOwner[w] # NoId /\ wsState[w] = CLOSED) => readyState[w] = CLOSED
       /\ wsState[w] = OPEN => readyState[w] = OPEN
  /\ \A p \in Pids : updates[p] = <<>> /\ ~effectPending[p]
  /\ \A k \in PcIds : pcs[k].ops = <<>>

\* p and q are both registered in the room, on sockets that are open
BothInRoom(p, q) ==
  /\ HasRoom(roomConnections, TheRoom)
  /\ \A x \in {p, q} :
       /\ MapHas(roomConnections[TheRoom], x)
       /\ wsOwner[MapGet(roomConnections[TheRoom], x).conn] = x
       /\ wsState[MapGet(roomConnections[TheRoom], x).conn] = OPEN
       /\ wsRef[x] = MapGet(roomConnections[TheRoom], x).conn

\* the session p holds for q has neither sent an offer nor been given one
WaitsForOffer(p, q) ==
  \E k \in PcIds :
    /\ pcs[k].owner = p /\ pcs[k].peer = q /\ ~pcs[k].closed
    /\ participants[p][q] = k
    /\ ~pcs[k].offered /\ ~pcs[k].remoteDescription

\* C38: when both participants of a pair are in the room and nothing is
\* pending or on its way any more, neither holds a session that still waits
\* for an offer: the negotiation of the pair was started, after a first join
\* and after a rejoin
C38_RejoinStartsNegotiation ==
  \A p, q \in Pids :
    (p # q /\ Quiescent /\ BothInRoom(p, q)) => ~WaitsForOffer(p, q)
=============================================================================
